---- MODULE Spec2Model ----
(***************************************************************************)
(* Model of the personal-finance-classifier pipeline (src/utils.py,        *)
(* src/classifier.py, src/app.py).                                         *)
(*                                                                         *)
(* Text is modelled as a sequence of one-character strings, so that        *)
(* lower(), upper(), strip(), startswith(), slicing and the `in` substring *)
(* test are computed character by character as Python computes them.       *)
(* Numbers are exact decimals [m, e] = m / 10^e; parsed dates are integer   *)
(* keys yyyymmdd, which order as the dates do.                             *)
(***************************************************************************)
EXTENDS Integers, Sequences, FiniteSets, TLC

VARIABLES
    pc,             \* position of the call being modelled: "call" before, "done" after
    description,    \* classify / extract_merchant_name: the description argument
    amount,         \* classify: the amount argument (a decimal number)
    category,       \* classify: the returned category, NoResult before the call
    merchant        \* extract_merchant_name: the returned text

textVars == <<description, amount, category, merchant>>

VARIABLES
    df,             \* the table a stage is given: None, or [columns, rows]
    df_normalized,  \* normalize_column_names: the returned table
    is_valid,       \* validate_csv_structure: first component of the result
    error_msg       \* validate_csv_structure: second component of the result

tableVars == <<df, df_normalized, is_valid, error_msg>>

VARIABLES
    df_clean,       \* clean_csv_data: the returned table
    removed_rows,   \* clean_csv_data: the returned list of removed-row records
    error           \* the message of the exception a call raised, NoneText if none

cleanVars == <<df_clean, removed_rows, error>>

VARIABLES
    uploaded_file,  \* the uploaded stream's content: [decodes, lines]
    position,       \* the stream position, in lines already consumed
    reads,          \* history: one record per read of the stream
    skip_rows,      \* smart_read_csv / process_uploaded_file: skip_rows
    detected_skip   \* detect_header_row: the returned row number

fileVars == <<uploaded_file, position, reads, skip_rows, detected_skip>>

VARIABLES
    session_state,      \* st.session_state: a dict, as a function on its keys
    main_auto_detect,   \* main: auto_detect, the value of the checkbox
    main_skip_rows,     \* main: skip_rows, the value of the number input
    classifier_choice,  \* main: the option picked in the radio
    classifier_type,    \* main: classifier_type after lines 86-88
    auto_detect,        \* process_uploaded_file: auto_detect
    stages,             \* history: the stage functions a run has called
    df_enhanced,        \* process_uploaded_file: df_enhanced
    displayed,          \* the table display_results was given, None before
    outcome             \* how the last run of main ended, "none" during a run

appVars == <<session_state, main_auto_detect, main_skip_rows, classifier_choice,
             classifier_type, auto_detect, stages, df_enhanced, displayed, outcome>>

vars == <<pc, textVars, tableVars, cleanVars, fileVars, appVars>>

\* Python None where a table is expected.
None == [none |-> TRUE]

\* Python None where a text is expected.
NoneText == <<"None">>

\* Value of a result variable before its function has returned.
NoResult == "none"

-----------------------------------------------------------------------------
(* Python str primitives used by the source.                               *)

UPPER_CHARS ==
    <<"A","B","C","D","E","F","G","H","I","J","K","L","M",
      "N","O","P","Q","R","S","T","U","V","W","X","Y","Z">>

LOWER_CHARS ==
    <<"a","b","c","d","e","f","g","h","i","j","k","l","m",
      "n","o","p","q","r","s","t","u","v","w","x","y","z">>

\* The lower-case letter of each upper-case letter, and the converse.
LowerOf == [c \in {UPPER_CHARS[i] : i \in 1..26} |->
               LOWER_CHARS[CHOOSE i \in 1..26 : UPPER_CHARS[i] = c]]

UpperOf == [c \in {LOWER_CHARS[i] : i \in 1..26} |->
               UPPER_CHARS[CHOOSE i \in 1..26 : LOWER_CHARS[i] = c]]

\* str.lower() on one character.
LowerChar(c) == IF c \in DOMAIN LowerOf THEN LowerOf[c] ELSE c

\* str.upper() on one character.
UpperChar(c) == IF c \in DOMAIN UpperOf THEN UpperOf[c] ELSE c

\* str.lower()
Lower(s) == <<>> \o [i \in 1..Len(s) |-> LowerChar(s[i])]

\* str.upper()
Upper(s) == <<>> \o [i \in 1..Len(s) |-> UpperChar(s[i])]

\* Characters str.strip() removes (only the blank occurs in the modelled inputs).
IsSpace(c) == c = " "

\* str.strip(): drops leading and trailing whitespace.
Strip(s) ==
    LET keep == {i \in 1..Len(s) : ~IsSpace(s[i])}
    IN  IF keep = {} THEN <<>>
        ELSE LET lo == CHOOSE i \in keep : \A j \in keep : i <= j
                 hi == CHOOSE i \in keep : \A j \in keep : j <= i
             IN  SubSeq(s, lo, hi)

\* str.startswith(prefix)
StartsWith(s, prefix) ==
    /\ Len(prefix) <= Len(s)
    /\ \A i \in 1..Len(prefix) : s[i] = prefix[i]

\* Python `sub in s` for strings: sub occurs as a contiguous substring of s.
Contains(sub, s) ==
    \E k \in 0..(Len(s) - Len(sub)) :
        \A i \in 1..Len(sub) : s[k + i] = sub[i]

\* Python slice s[:n]
Take(s, n) == SubSeq(s, 1, IF Len(s) < n THEN Len(s) ELSE n)

\* Python slice s[n:]
Drop(s, n) == SubSeq(s, n + 1, Len(s))

-----------------------------------------------------------------------------
(* Numbers: the decimal m / 10^e, with no trailing zero in the fraction.   *)

RECURSIVE Num(_, _)
Num(m, e) == IF e > 0 /\ m % 10 = 0 THEN Num(m \div 10, e - 1) ELSE [m |-> m, e |-> e]

\* amount > 0
Positive(n) == n.m > 0

\* abs(amount)
Abs(n) == [m |-> IF n.m < 0 THEN -n.m ELSE n.m, e |-> n.e]

-----------------------------------------------------------------------------
(* Tables (pandas DataFrame): column names in order, and rows of cells.    *)
(* A cell is a text, or NaN for a missing value.                           *)

\* A missing cell (float nan); no text equals it.
NaN == <<"NaN">>

\* The table variables when no table function is being modelled.
TableIdle ==
    /\ df = None
    /\ df_normalized = None
    /\ is_valid = FALSE
    /\ error_msg = NoneText

\* The file variables when no file function is being modelled.
FileIdle ==
    /\ uploaded_file = [decodes |-> TRUE, lines |-> <<>>]
    /\ position = 0
    /\ reads = <<>>
    /\ skip_rows = 0
    /\ detected_skip = 0

\* The cleaning variables when clean_csv_data is not being modelled.
CleanIdle ==
    /\ df_clean = None
    /\ removed_rows = <<>>
    /\ error = NoneText

\* The text variables when no text function is being modelled.
TextIdle ==
    /\ description = <<>>
    /\ amount = Num(0, 0)
    /\ category = NoResult
    /\ merchant = <<>>

\* An empty dict.
EmptyDict == [k \in {} |-> TRUE]

\* dict.get(key, default) (app.py lines 114-115)
Get(dict, key, default) == IF key \in DOMAIN dict THEN dict[key] ELSE default

\* The application variables when the application is not being modelled,
\* and when it starts: no stored setting, the widgets at their defaults
\* (lines 61, 69 and 81).
AppIdle ==
    /\ session_state = EmptyDict
    /\ main_auto_detect = TRUE
    /\ main_skip_rows = 0
    /\ classifier_choice = "rule-based"
    /\ classifier_type = "rule-based"
    /\ auto_detect = TRUE
    /\ stages = <<>>
    /\ df_enhanced = None
    /\ displayed = None
    /\ outcome = "none"

\* The text 'Unknown' (utils.py lines 46 and 180).
Unknown == <<"U","n","k","n","o","w","n">>

\* The canonical column names.
S_date == <<"d","a","t","e">>

S_description == <<"d","e","s","c","r","i","p","t","i","o","n">>

S_amount == <<"a","m","o","u","n","t">>

S_merchant == <<"m","e","r","c","h","a","n","t">>

-----------------------------------------------------------------------------
(* src/utils.py: normalize_column_names                                    *)

date_variations ==
    {
      <<"d","a","t","e">>,
      <<"p","o","s","t","e","d"," ","d","a","t","e">>,
      <<"t","r","a","n","s","a","c","t","i","o","n"," ","d","a","t","e">>,
      <<"p","o","s","t"," ","d","a","t","e">>,
      <<"t","r","a","n","s"," ","d","a","t","e">>,
      <<"p","o","s","t","i","n","g"," ","d","a","t","e">>,
      <<"t","r","a","n","s","_","d","a","t","e">>,
      <<"p","o","s","t","e","d","_","d","a","t","e">>,
      <<"t","r","a","n","s","a","c","t","i","o","n","_","d","a","t","e">>
    }

description_variations ==
    {
      <<"d","e","s","c","r","i","p","t","i","o","n">>,
      <<"d","e","s","c">>,
      <<"m","e","r","c","h","a","n","t">>,
      <<"t","r","a","n","s","a","c","t","i","o","n"," ","d","e","s","c","r","i","p","t","i","o","n">>,
      <<"t","r","a","n","s"," ","d","e","s","c","r","i","p","t","i","o","n">>,
      <<"d","e","t","a","i","l","s">>,
      <<"m","e","m","o">>,
      <<"p","a","y","e","e">>,
      <<"n","a","m","e">>,
      <<"t","r","a","n","s","a","c","t","i","o","n","_","d","e","s","c","r","i","p","t","i","o","n">>,
      <<"t","r","a","n","s","_","d","e","s","c","r","i","p","t","i","o","n">>
    }

amount_variations ==
    {
      <<"a","m","o","u","n","t">>,
      <<"a","m","t">>,
      <<"t","r","a","n","s","a","c","t","i","o","n"," ","a","m","o","u","n","t">>,
      <<"t","r","a","n","s"," ","a","m","o","u","n","t">>,
      <<"v","a","l","u","e">>,
      <<"d","e","b","i","t">>,
      <<"c","r","e","d","i","t">>,
      <<"t","r","a","n","s","a","c","t","i","o","n","_","a","m","o","u","n","t">>,
      <<"t","r","a","n","s","_","a","m","o","u","n","t">>
    }

\* A date test that every column name passes.
IsDateColumnAnyName(col_lower) == TRUE

\* The test of line 298.
IsDateColumn(col_lower) ==
    col_lower \in date_variations \/ Contains(S_date, col_lower)

\* The test of line 303.
IsDescriptionColumn(col_lower) ==
    \/ col_lower \in description_variations
    \/ Contains(S_description, col_lower)
    \/ Contains(S_merchant, col_lower)

\* The test of line 308.
IsAmountColumn(col_lower) ==
    col_lower \in amount_variations \/ Contains(S_amount, col_lower)

\* column_mapping[col] = canonical (a dict: a function on the mapped names).
SetItem(mapping, col, canonical) ==
    [k \in DOMAIN mapping \cup {col} |-> IF k = col THEN canonical ELSE mapping[k]]

\* The guards of lines 299, 304 and 309: `canonical not in column_mapping`
\* tests the KEYS of the dict, which are source column names.
NotInMapping(canonical, mapping) == canonical \notin DOMAIN mapping

\* One iteration of the loop of lines 294-310.
MapColumn(mapping, col) ==
    LET col_lower == Strip(Lower(col))
    IN  IF IsDateColumn(col_lower)
        THEN IF NotInMapping(S_date, mapping)
             THEN SetItem(mapping, col, S_date) ELSE mapping
        ELSE IF IsDescriptionColumn(col_lower)
        THEN IF NotInMapping(S_description, mapping)
             THEN SetItem(mapping, col, S_description) ELSE mapping
        ELSE IF IsAmountColumn(col_lower)
        THEN IF NotInMapping(S_amount, mapping)
             THEN SetItem(mapping, col, S_amount) ELSE mapping
        ELSE mapping

\* The loop of lines 292-310 over df.columns, left to right.
RECURSIVE ColumnMapping(_, _)
ColumnMapping(columns, mapping) ==
    IF columns = <<>> THEN mapping
    ELSE ColumnMapping(Tail(columns), MapColumn(mapping, Head(columns)))

\* DataFrame.rename(columns=mapping): every column whose name is a key gets
\* the mapped name; the values are untouched.
Rename(table, mapping) ==
    [columns |-> <<>> \o [i \in 1..Len(table.columns) |->
                     IF table.columns[i] \in DOMAIN mapping
                     THEN mapping[table.columns[i]]
                     ELSE table.columns[i]],
     rows |-> table.rows]

\* normalize_column_names (lines 261-316)
normalize_column_names(table) ==
    LET column_mapping == ColumnMapping(table.columns, <<>>)
    IN  IF DOMAIN column_mapping # {} THEN Rename(table, column_mapping) ELSE table

-----------------------------------------------------------------------------
(* src/utils.py: validate_csv_structure                                    *)

\* required (line 334), in list order.
required == <<S_date, S_description, S_amount>>

\* DataFrame.empty: some axis has length 0.
Empty(table) == Len(table.columns) = 0 \/ Len(table.rows) = 0

MSG_EMPTY == <<"C","S","V"," ","f","i","l","e"," ","i","s"," ","e","m","p","t","y">>

MSG_MISSING == <<"M","i","s","s","i","n","g"," ","r","e","q","u","i","r","e","d"," ","c","o","l","u","m","n","s",":"," ">>

MSG_EXPECTED == <<"."," ","E","x","p","e","c","t","e","d"," ","c","o","l","u","m","n","s",":"," ","d","a","t","e",","," ","d","e","s","c","r","i","p","t","i","o","n",","," ","a","m","o","u","n","t">>

\* ', '.join(names)
RECURSIVE Join(_)
Join(names) ==
    IF names = <<>> THEN <<>>
    ELSE IF Len(names) = 1 THEN names[1]
    ELSE names[1] \o <<",", " ">> \o Join(Tail(names))

\* [col for col in names if col not in present] (lines 31 and 336)
RECURSIVE NotIn(_, _)
NotIn(names, present) ==
    IF names = <<>> THEN <<>>
    ELSE (IF Head(names) \in present THEN <<>> ELSE <<Head(names)>>)
         \o NotIn(Tail(names), present)

\* A columns_lower that compares the names as they are written.
ColumnsAsWritten(table) ==
    {table.columns[i] : i \in 1..Len(table.columns)}

\* columns_lower (line 333), as the set `in` is tested against.
ColumnsLower(table) ==
    {Strip(Lower(table.columns[i])) : i \in 1..Len(table.columns)}

\* validate_csv_structure (lines 319-341): the pair (is_valid, error_message).
validate_csv_structure(table) ==
    IF table = None \/ Empty(table) THEN <<FALSE, MSG_EMPTY>>
    ELSE LET missing == NotIn(required, ColumnsLower(table))
         IN  IF missing # <<>>
             THEN <<FALSE, MSG_MISSING \o Join(missing) \o MSG_EXPECTED>>
             ELSE <<TRUE, NoneText>>

-----------------------------------------------------------------------------
(* src/utils.py: clean_csv_data                                            *)

S_nan == <<"n","a","n">>

S_None == <<"N","o","n","e">>

S_Invalid == <<"I","n","v","a","l","i","d">>

REASON_AMOUNT == "Invalid amount (could not convert to number)"

REASON_DATE == "Invalid date (could not parse)"

\* astype(str) on one cell: a missing value becomes the text 'nan'.
Str(cell) == IF cell = NaN THEN S_nan ELSE cell

\* Series.str.replace(ch, '', regex=False): every occurrence of ch goes.
RemoveChar(s, ch) == SelectSeq(s, LAMBDA c : c # ch)

DIGITS == <<"0","1","2","3","4","5","6","7","8","9">>

IsDigit(c) == \E i \in 1..10 : DIGITS[i] = c

DigitValue(c) == (CHOOSE i \in 1..10 : DIGITS[i] = c) - 1

\* The value of a text of decimal digits.
RECURSIVE DigitsValue(_)
DigitsValue(s) ==
    IF s = <<>> THEN 0
    ELSE DigitsValue(SubSeq(s, 1, Len(s) - 1)) * 10 + DigitValue(s[Len(s)])

\* The float nan that to_numeric(errors='coerce') gives an unparsable text.
NotANumber == [nan |-> TRUE]

\* pd.to_numeric(text, errors='coerce') (line 58) for texts without exponent:
\* an optional sign, digits with at most one decimal point, at least one
\* digit. Anything else, the text 'nan' included, is nan.
ToNumeric(text) ==
    LET signed == text # <<>> /\ text[1] \in {"+", "-"}
        body == IF signed THEN Tail(text) ELSE text
        dots == {i \in 1..Len(body) : body[i] = "."}
        digits == SelectSeq(body, IsDigit)
        wellFormed ==
            /\ \A i \in 1..Len(body) : IsDigit(body[i]) \/ body[i] = "."
            /\ Cardinality(dots) <= 1
            /\ digits # <<>>
        places == IF dots = {} THEN 0 ELSE Len(body) - (CHOOSE i \in dots : TRUE)
        magnitude == DigitsValue(digits)
    IN  IF ~wellFormed THEN NotANumber
        ELSE Num(IF signed /\ text[1] = "-" THEN -magnitude ELSE magnitude, places)

\* NaT, the missing date; every parsed date is a positive key.
NaT == -1

\* Days of a month of the Gregorian calendar.
DaysIn(y, mo) ==
    IF mo \in {4, 6, 9, 11} THEN 30
    ELSE IF mo # 2 THEN 31
    ELSE IF (y % 4 = 0 /\ y % 100 # 0) \/ y % 400 = 0 THEN 29 ELSE 28

\* pd.to_datetime(cell, errors='coerce') (line 75) for ISO texts yyyy-mm-dd:
\* the key yyyymmdd of a calendar date, NaT for a missing cell, for a text of
\* another shape and for a day that is not in the calendar.
ToDatetime(cell) ==
    IF cell = NaN THEN NaT
    ELSE IF \/ Len(cell) # 10
            \/ cell[5] # "-"
            \/ cell[8] # "-"
            \/ \E i \in {1, 2, 3, 4, 6, 7, 9, 10} : ~IsDigit(cell[i])
    THEN NaT
    ELSE LET y == DigitsValue(SubSeq(cell, 1, 4))
             mo == DigitsValue(SubSeq(cell, 6, 7))
             d == DigitsValue(SubSeq(cell, 9, 10))
         IN  IF mo \in 1..12 /\ d \in 1..DaysIn(y, mo)
             THEN y * 10000 + mo * 100 + d
             ELSE NaT

\* df_clean.columns.str.lower().str.strip() (line 27)
LowerStripColumns(columns) ==
    <<>> \o [i \in 1..Len(columns) |-> Strip(Lower(columns[i]))]

\* str(missing_cols): the repr of a list of texts, ['a', 'b'].
RECURSIVE ReprItems(_)
ReprItems(names) ==
    IF names = <<>> THEN <<>>
    ELSE <<"'">> \o names[1] \o <<"'">>
         \o (IF Len(names) = 1 THEN <<>> ELSE <<",", " ">> \o ReprItems(Tail(names)))

\* The position of the last column with the given name.
LastColumn(columns, name) ==
    CHOOSE i \in 1..Len(columns) :
        columns[i] = name /\ \A j \in (i + 1)..Len(columns) : columns[j] # name

\* The position of the first column with the given name: what is left of
\* the name after lines 38-40 keep the first occurrence of every name.
FirstColumn(columns, name) ==
    CHOOSE i \in 1..Len(columns) :
        columns[i] = name /\ \A j \in 1..(i - 1) : columns[j] # name

\* Lines 36-42: the three required columns of every row, with the row label.
Reduce(table) ==
    LET columns == LowerStripColumns(table.columns)
    IN  <<>> \o [k \in 1..Len(table.rows) |->
            [index |-> k - 1,
             date |-> table.rows[k][FirstColumn(columns, S_date)],
             description |-> table.rows[k][FirstColumn(columns, S_description)],
             amount |-> table.rows[k][FirstColumn(columns, S_amount)]]]

\* A description cleaning that forgets the 'nan' of missing values.
CleanDescriptionKeepNan(cell) ==
    LET s == Strip(Str(cell))
    IN  IF s \in {S_None, <<>>} THEN Unknown ELSE s

\* Lines 45-46 on one cell.
CleanDescription(cell) ==
    LET s == Strip(Str(cell))
    IN  IF s \in {S_nan, S_None, <<>>} THEN Unknown ELSE s

\* An amount cleaning that removes the '$' only where the text begins with it.
CleanAmountLeadingDollar(cell) ==
    LET s == Str(cell)
        undollared == IF s # <<>> /\ s[1] = "$" THEN Tail(s) ELSE s
    IN  ToNumeric(Strip(RemoveChar(undollared, ",")))

\* Lines 54-58 on one cell.
CleanAmount(cell) ==
    ToNumeric(Strip(RemoveChar(RemoveChar(Str(cell), "$"), ",")))

\* Lines 44-58: description and amount cleaned, date as it was read.
CleanColumns(rows) ==
    <<>> \o [k \in 1..Len(rows) |->
            [index |-> rows[k].index,
             date |-> rows[k].date,
             description |-> CleanDescription(rows[k].description),
             amount |-> CleanAmount(rows[k].amount)]]

\* Lines 61-69: one record per row whose amount is nan.
InvalidAmountRecord(row) ==
    [index |-> row.index,
     date |-> row.date,
     description |-> row.description,
     amount |-> S_Invalid,
     reason |-> REASON_AMOUNT]

\* Lines 78-86: one record per row whose date is NaT.
InvalidDateRecord(row) ==
    [index |-> row.index,
     date |-> S_Invalid,
     description |-> row.description,
     amount |-> row.amount,
     reason |-> REASON_DATE]

\* An amount filter that drops nothing.
KeepAllRows(rows) == rows

\* dropna(subset=['amount']) (line 72)
DropNaAmount(rows) == SelectSeq(rows, LAMBDA r : r.amount # NotANumber)

\* Line 75: the date column parsed.
ParseDates(rows) ==
    <<>> \o [k \in 1..Len(rows) |->
            [index |-> rows[k].index,
             date |-> ToDatetime(rows[k].date),
             description |-> rows[k].description,
             amount |-> rows[k].amount]]

\* dropna(subset=['date']) (line 89)
DropNaDate(rows) == SelectSeq(rows, LAMBDA r : r.date # NaT)

\* Lines 61-69: the records of the rows whose amount is nan, in row order.
InvalidAmounts(rows) ==
    LET invalid_amounts == SelectSeq(rows, LAMBDA r : r.amount = NotANumber)
    IN  <<>> \o [k \in 1..Len(invalid_amounts) |->
                InvalidAmountRecord(invalid_amounts[k])]

\* Lines 78-86: the records of the rows whose date is NaT, in row order.
InvalidDates(rows) ==
    LET invalid_dates == SelectSeq(rows, LAMBDA r : r.date = NaT)
    IN  <<>> \o [k \in 1..Len(invalid_dates) |->
                InvalidDateRecord(invalid_dates[k])]

\* The orders sort_values('date') (line 92) may leave the rows in: every
\* permutation with non-decreasing dates (the default sort is not stable).
SortedOrders(rows) ==
    {p \in [1..Len(rows) -> 1..Len(rows)] :
        /\ \A i, j \in 1..Len(rows) : i # j => p[i] # p[j]
        /\ \A i, j \in 1..Len(rows) : i < j => rows[p[i]].date <= rows[p[j]].date}

\* The rows in the given order, each still under the label it had.
KeepIndex(rows, order) ==
    [columns |-> required,
     index |-> <<>> \o [k \in 1..Len(rows) |-> rows[order[k]].index],
     rows |-> <<>> \o [k \in 1..Len(rows) |->
                 [date |-> rows[order[k]].date,
                  description |-> rows[order[k]].description,
                  amount |-> rows[order[k]].amount]]]

\* reset_index(drop=True) (line 92): the rows in the given order, labelled
\* by position (index); the old labels are dropped.
ResetIndex(rows, order) ==
    [columns |-> required,
     index |-> <<>> \o [k \in 1..Len(rows) |-> k - 1],
     rows |-> <<>> \o [k \in 1..Len(rows) |->
                 [date |-> rows[order[k]].date,
                  description |-> rows[order[k]].description,
                  amount |-> rows[order[k]].amount]]]

\* The ValueError message of line 34.
MissingColumnsError(missing_cols) ==
    MSG_MISSING \o <<"[">> \o ReprItems(missing_cols) \o <<"]">>

\* clean_csv_data (lines 10-94) on a table that has the required columns:
\* the set of pairs <<cleaned table, removed rows>> it may return.
clean_csv_data(table) ==
    LET cleaned == CleanColumns(Reduce(table))
        invalid_amounts == InvalidAmounts(cleaned)
        dated == ParseDates(DropNaAmount(cleaned))
        invalid_dates == InvalidDates(dated)
        kept == DropNaDate(dated)
    IN  {<<ResetIndex(kept, order), invalid_amounts \o invalid_dates>> :
            order \in SortedOrders(kept)}

\* missing_cols (line 31)
MissingCols(table) ==
    LET columns == LowerStripColumns(table.columns)
    IN  NotIn(required, {columns[i] : i \in 1..Len(columns)})

-----------------------------------------------------------------------------
(* Inputs of the cleaning specification.                                   *)

\* Most rows of a table given to clean_csv_data.
MaxRows == 2

D_JAN15 == <<"2","0","2","4","-","0","1","-","1","5">>

D_JAN02 == <<"2","0","2","4","-","0","1","-","0","2">>

D_FEB30 == <<"2","0","2","4","-","0","2","-","3","0">>

D_DEC31 == <<"2","0","2","3","-","1","2","-","3","1">>

T_COFFEE == <<" ","C","o","f","f","e","e"," ","H","u","t"," ">>

A_1234_56 == <<"$","1",",","2","3","4",".","5","6">>

A_MINUS_5_75 == <<" ","-","5",".","7","5">>

A_ABC == <<"a","b","c">>

A_MINUS_DOLLAR_5_75 == <<"-","$","5",".","7","5">>

DateCells == {D_JAN15, D_JAN02, D_FEB30, NaN}

DescriptionCells == {T_COFFEE, NaN, S_None, <<" ">>}

AmountCells == {A_1234_56, A_MINUS_5_75, A_MINUS_DOLLAR_5_75, A_ABC, NaN}

\* The (date, description, amount) cells of a row: every date with every
\* amount, and every description with a good and a bad date and amount.
RowCells ==
    {<<d, T_COFFEE, a>> : d \in DateCells, a \in AmountCells}
    \cup {<<d, s, a>> : d \in {D_JAN15, D_FEB30}, s \in DescriptionCells,
                       a \in {A_MINUS_5_75, A_ABC}}

\* Column layouts: the names, and for each column the cell it shows of a
\* row (1 date, 2 description, 3 amount, 0 a cell of its own).
Layouts ==
    {
      [names |-> <<S_date, S_description, S_amount>>, shows |-> <<1, 2, 3>>],
      [names |-> <<<<"D","a","t","e">>, <<"A","m","o","u","n","t"," ">>, <<"D","e","s","c","r","i","p","t","i","o","n">>, <<"B","a","l","a","n","c","e">>>>,
       shows |-> <<1, 3, 2, 0>>],
      [names |-> <<S_date, <<" ","D","A","T","E">>, S_description, S_amount, S_amount>>,
       shows |-> <<1, 0, 2, 3, 0>>],
      [names |-> <<S_date, S_amount>>, shows |-> <<1, 3>>]
    }

\* The cell of a column that shows no cell of the row: a date that no row
\* has and that is no number.
OTHER_CELL == D_DEC31

TableOf(layout, cells) ==
    [columns |-> layout.names,
     rows |-> <<>> \o [k \in 1..Len(cells) |->
                 <<>> \o [i \in 1..Len(layout.names) |->
                     IF layout.shows[i] = 0 THEN OTHER_CELL
                     ELSE cells[k][layout.shows[i]]]]]

\* The tables of at most n rows.
CleanTables(n) ==
    {TableOf(layout, <<>> \o cells) :
        layout \in Layouts,
        cells \in UNION {[1..k -> RowCells] : k \in 0..n}}

InitClean ==
    /\ pc = "call"
    /\ df \in CleanTables(MaxRows)
    /\ df_normalized = None
    /\ is_valid = FALSE
    /\ error_msg = NoneText
    /\ CleanIdle
    /\ AppIdle
    /\ TextIdle
    /\ FileIdle

\* One call clean_csv_data(df) that raises the ValueError of line 34.
CleanCsvDataRaises ==
    /\ pc = "call"
    /\ MissingCols(df) # <<>>
    /\ pc' = "raised"
    /\ error' = MissingColumnsError(MissingCols(df))
    /\ UNCHANGED <<appVars, df_clean, removed_rows, tableVars, textVars, fileVars>>

\* One call clean_csv_data(df) that returns.
CleanCsvData ==
    /\ pc = "call"
    /\ MissingCols(df) = <<>>
    /\ \E result \in clean_csv_data(df) :
           /\ df_clean' = result[1]
           /\ removed_rows' = result[2]
    /\ pc' = "cleaned"
    /\ UNCHANGED <<appVars, error, tableVars, textVars, fileVars>>

NextClean == CleanCsvData \/ CleanCsvDataRaises

SpecClean == InitClean /\ [][NextClean]_vars

-----------------------------------------------------------------------------
(* src/utils.py: detect_header_row                                         *)
(* The stream is its lines, each already split into cells as csv.reader    *)
(* splits it, and whether its bytes decode as UTF-8.                       *)

\* Rows detect_header_row looks at (line 231).
HEADER_SCAN_ROWS == 20

\* required_keywords (line 241)
required_keywords == <<S_date, S_description, S_amount>>

\* A scan that also takes the row with index 20.
FirstRowsInclusive(lines) == Take(lines, HEADER_SCAN_ROWS + 1)

\* Lines 229-233: the rows with index below 20.
FirstRows(lines) == Take(lines, HEADER_SCAN_ROWS)

\* Lines 245-252: the number of keywords found in some cell of the row.
Matches(row) ==
    LET row_lower == [i \in 1..Len(row) |-> Strip(Lower(row[i]))]
    IN  Cardinality({k \in 1..Len(required_keywords) :
            \E i \in 1..Len(row) : Contains(required_keywords[k], row_lower[i])})

\* Lines 243-258: the index of the first row with all three keywords, 0 if
\* there is none.
RECURSIVE FirstHeader(_, _)
FirstHeader(rows, idx) ==
    IF idx >= Len(rows) THEN 0
    ELSE IF Matches(rows[idx + 1]) = 3 THEN idx
    ELSE FirstHeader(rows, idx + 1)

\* detect_header_row (lines 212-258): the returned row number.
detect_header_row(file) ==
    IF ~file.decodes THEN 0
    ELSE FirstHeader(FirstRows(file.lines), 0)

\* Most preamble rows, and most rows after them, of a file given to
\* detect_header_row.
MaxPreamble == 21

MaxTail == 2

R_SUMMARY == <<<<"A","c","c","o","u","n","t"," ","S","u","m","m","a","r","y">>>>

R_PARTIAL == <<<<"D","a","t","e">>, <<"A","m","o","u","n","t">>>>

R_HEADER == <<<<"D","a","t","e">>, <<"D","e","s","c","r","i","p","t","i","o","n">>, <<"A","m","o","u","n","t">>, <<"B","a","l","a","n","c","e">>>>

R_HEADER_LONG == <<<<" ","P","o","s","t","e","d"," ","D","A","T","E">>, <<"A","m","o","u","n","t"," ","(","U","S","D",")">>, <<"T","r","a","n","s"," ","d","e","s","c","r","i","p","t","i","o","n"," ">>>>

R_DATA == <<<<"2","0","2","4","-","0","1","-","1","5">>, <<"C","o","f","f","e","e"," ","H","u","t">>, <<"-","5",".","7","5">>>>

\* n copies of a row.
Repeat(row, n) == <<>> \o [i \in 1..n |-> row]

\* Files of up to p equal preamble rows followed by up to n other rows.
HeaderFiles(p, n) ==
    {[decodes |-> d, lines |-> Repeat(pre, k) \o (<<>> \o rest)] :
        d \in BOOLEAN,
        pre \in {R_SUMMARY, R_PARTIAL},
        k \in 0..p,
        rest \in UNION {[1..m -> {R_HEADER, R_HEADER_LONG, R_PARTIAL, R_DATA}] :
                            m \in 0..n}}

InitHeader ==
    /\ pc = "call"
    /\ uploaded_file \in HeaderFiles(MaxPreamble, MaxTail)
    /\ position \in {0, Len(uploaded_file.lines)}
    /\ reads = <<>>
    /\ skip_rows = 0
    /\ detected_skip = 0
    /\ TableIdle
    /\ CleanIdle
    /\ AppIdle
    /\ TextIdle

\* One call detect_header_row(uploaded_file): the stream is rewound, read
\* once to its end (lines 222-228) and rewound again (line 235 or 238).
DetectHeaderRow ==
    /\ pc = "call"
    /\ pc' = "done"
    /\ detected_skip' = detect_header_row(uploaded_file)
    /\ reads' = Append(reads, [by |-> "detect_header_row", from |-> 0])
    /\ position' = 0
    /\ UNCHANGED <<appVars, uploaded_file, skip_rows, tableVars, cleanVars, textVars>>

NextHeader == DetectHeaderRow

SpecHeader == InitHeader /\ [][NextHeader]_vars

-----------------------------------------------------------------------------
(* src/utils.py: smart_read_csv                                            *)

\* The outcome of a read_csv call that raised.
Raised == [raised |-> TRUE]

\* The outcome of a read_csv call that returned a table.
Returned(table) == [raised |-> FALSE, table |-> table]

S_Unnamed == <<"U","n","n","a","m","e","d",":"," ">>

\* The column names read_csv makes of a header line: an empty name becomes
\* 'Unnamed: i', a repeated name gets '.k' appended (k-th repetition).
HeaderNames(header) ==
    LET named == [i \in 1..Len(header) |->
                     IF header[i] = <<>> THEN S_Unnamed \o <<DIGITS[i]>> ELSE header[i]]
        earlier(i) == Cardinality({j \in 1..(i - 1) : named[j] = named[i]})
    IN  <<>> \o [i \in 1..Len(header) |->
            IF earlier(i) = 0 THEN named[i]
            ELSE named[i] \o <<".">> \o <<DIGITS[earlier(i) + 1]>>]

\* The cells of a data line under a header of n names, width fields wide:
\* missing trailing fields and empty fields are nan; the leading
\* width - n fields are the row's label, not cells.
DataCells(line, n, width) ==
    <<>> \o [i \in 1..n |->
        LET k == i + (width - n)
        IN  IF k > Len(line) \/ line[k] = <<>> THEN NaN ELSE line[k]]

\* pd.read_csv(uploaded_file, skiprows=skip) from stream position `from`,
\* with on_bad_lines='skip' when lenient (lines 201 and 205). The first
\* skip lines are dropped, then blank lines; the first line left is the
\* header. The header and the first data line fix the number of fields; a
\* later line with more fields is a bad line: the strict parse raises on
\* it, the lenient parse leaves it out. Undecodable bytes and a stream with
\* no line left raise in both modes. Cells are kept as texts.
ReadCsv(file, from, skip, lenient) ==
    LET body == SelectSeq(Drop(Drop(file.lines, from), skip), LAMBDA l : l # <<>>)
    IN  IF ~file.decodes \/ body = <<>> THEN Raised
        ELSE LET header == body[1]
                 data == Tail(body)
                 width == IF data # <<>> /\ Len(data[1]) > Len(header)
                          THEN Len(data[1]) ELSE Len(header)
                 good == SelectSeq(data, LAMBDA l : Len(l) <= width)
             IN  IF ~lenient /\ Len(good) < Len(data) THEN Raised
                 ELSE Returned(
                     [columns |-> HeaderNames(header),
                      rows |-> <<>> \o [k \in 1..Len(good) |->
                                  DataCells(good[k], Len(header), width)]])

\* The record of one read of the stream.
Read(by, from) == [by |-> by, from |-> from]

\* A smart_read_csv without the seek(0) of line 204: the second attempt
\* reads on from where the first one stopped.
smart_read_csv_no_rewind(file, skip) ==
    LET strict == ReadCsv(file, 0, skip, FALSE)
        end == Len(file.lines)
        lenient == ReadCsv(file, end, skip, TRUE)
    IN  IF ~strict.raised
        THEN [df |-> strict.table, reads |-> <<Read("strict", 0)>>]
        ELSE [df |-> IF lenient.raised THEN None ELSE lenient.table,
              reads |-> <<Read("strict", 0), Read("lenient", end)>>]

\* smart_read_csv (lines 183-209): the returned table (None when both
\* parses raise) and the reads of the stream it made. Each parse follows a
\* seek(0) (lines 196 and 204) and leaves the stream at its end.
smart_read_csv(file, skip) ==
    LET strict == ReadCsv(file, 0, skip, FALSE)
        lenient == ReadCsv(file, 0, skip, TRUE)
    IN  IF ~strict.raised
        THEN [df |-> strict.table, reads |-> <<Read("strict", 0)>>]
        ELSE [df |-> IF lenient.raised THEN None ELSE lenient.table,
              reads |-> <<Read("strict", 0), Read("lenient", 0)>>]

\* Most lines of a file given to smart_read_csv, and the largest skip_rows.
MaxLines == 3

MaxSkip == 2

R_DATA4 == <<<<"2","0","2","4","-","0","1","-","1","5">>, <<"C","o","f","f","e","e"," ","H","u","t">>, <<"-","5",".","7","5">>, <<"1","0","0">>>>

R_LONG == <<<<"2","0","2","4","-","0","1","-","0","2">>, <<"S","h","e","l","l">>, <<"O","i","l">>, <<"-","4","0">>, <<"6","0">>>>

R_BLANK == <<>>

\* Files of up to n lines.
ReadFiles(n) ==
    {[decodes |-> d, lines |-> <<>> \o lines] :
        d \in BOOLEAN,
        lines \in UNION {[1..m -> {R_HEADER, R_DATA4, R_LONG, R_SUMMARY, R_BLANK}] :
                             m \in 0..n}}

InitRead ==
    /\ pc = "call"
    /\ uploaded_file \in ReadFiles(MaxLines)
    /\ position \in {0, Len(uploaded_file.lines)}
    /\ reads = <<>>
    /\ skip_rows \in 0..MaxSkip
    /\ detected_skip = 0
    /\ TableIdle
    /\ CleanIdle
    /\ AppIdle
    /\ TextIdle

\* One call df = smart_read_csv(uploaded_file, skip_rows).
SmartReadCsv ==
    /\ pc = "call"
    /\ pc' = "done"
    /\ df' = smart_read_csv(uploaded_file, skip_rows).df
    /\ reads' = reads \o smart_read_csv(uploaded_file, skip_rows).reads
    /\ position' = Len(uploaded_file.lines)
    /\ UNCHANGED <<appVars, uploaded_file, skip_rows, detected_skip, df_normalized,
                   is_valid, error_msg, cleanVars, textVars>>

NextRead == SmartReadCsv

SpecRead == InitRead /\ [][NextRead]_vars

-----------------------------------------------------------------------------
(* Inputs of the column specification: tables as read_csv returns them     *)
(* (distinct column names), with at most one row.                          *)

\* Most columns of a table given to the column functions.
MaxCols == 3

ColumnNames ==
    {
      <<"d","a","t","e">>,
      <<"D","a","t","e">>,
      <<"P","o","s","t","e","d"," ","D","a","t","e">>,
      <<"T","r","a","n","s"," ","D","a","t","e"," ">>,
      <<"d","e","s","c","r","i","p","t","i","o","n">>,
      <<"D","e","s","c","r","i","p","t","i","o","n">>,
      <<"M","e","r","c","h","a","n","t"," ","N","a","m","e">>,
      <<"m","e","m","o">>,
      <<"a","m","o","u","n","t">>,
      <<"D","e","b","i","t">>,
      <<"B","a","l","a","n","c","e">>
    }

\* The sequences of n distinct column names.
DistinctColumns(n) ==
    {c \in [1..n -> ColumnNames] : \A i, j \in 1..n : i # j => c[i] # c[j]}

\* Cell texts that are no date and no number, and a missing cell.
SampleCells == {<<"a","b","c">>, NaN}

\* Tables with the given columns: no row, or one row of equal cells.
TablesWith(columns) ==
    {[columns |-> columns, rows |-> <<>>]}
    \cup {[columns |-> columns, rows |-> <<[i \in 1..Len(columns) |-> cell]>>] :
              cell \in SampleCells}

\* The tables of at most n columns.
ColumnTables(n) ==
    UNION {TablesWith(<<>> \o c) : c \in UNION {DistinctColumns(k) : k \in 0..n}}

InitColumns ==
    /\ pc = "call"
    /\ df \in ColumnTables(MaxCols) \cup {None}
    /\ df_normalized = None
    /\ is_valid = FALSE
    /\ error_msg = NoneText
    /\ TextIdle
    /\ CleanIdle
    /\ AppIdle
    /\ FileIdle

\* One call normalize_column_names(df); df is a table (app.py:171-177).
NormalizeColumnNames ==
    /\ pc = "call"
    /\ df # None
    /\ pc' = "normalized"
    /\ df_normalized' = normalize_column_names(df)
    /\ UNCHANGED <<appVars, df, is_valid, error_msg, textVars, cleanVars, fileVars>>

\* One call validate_csv_structure(df).
ValidateCsvStructure ==
    /\ pc = "call"
    /\ pc' = "validated"
    /\ is_valid' = validate_csv_structure(df)[1]
    /\ error_msg' = validate_csv_structure(df)[2]
    /\ UNCHANGED <<appVars, df, df_normalized, textVars, cleanVars, fileVars>>

NextColumns == NormalizeColumnNames \/ ValidateCsvStructure

SpecColumns == InitColumns /\ [][NextColumns]_vars

-----------------------------------------------------------------------------
(* src/classifier.py                                                       *)

CATEGORY_KEYWORDS ==
  <<
    [category |-> "Food & Dining", keywords |-> <<
      <<"r","e","s","t","a","u","r","a","n","t">>,
      <<"c","a","f","e">>,
      <<"c","o","f","f","e","e">>,
      <<"s","t","a","r","b","u","c","k","s">>,
      <<"d","u","n","k","i","n">>,
      <<"m","c","d","o","n","a","l","d">>,
      <<"b","u","r","g","e","r">>,
      <<"p","i","z","z","a">>,
      <<"c","h","i","p","o","t","l","e">>,
      <<"s","u","b","w","a","y">>,
      <<"t","a","c","o">>,
      <<"d","o","o","r","d","a","s","h">>,
      <<"u","b","e","r","e","a","t","s">>,
      <<"g","r","u","b","h","u","b">>,
      <<"p","o","s","t","m","a","t","e","s">>,
      <<"s","e","a","m","l","e","s","s">>,
      <<"d","e","l","i","v","e","r","y">>,
      <<"d","i","n","e","r">>,
      <<"b","i","s","t","r","o">>,
      <<"g","r","i","l","l">>,
      <<"b","a","r">>,
      <<"p","u","b">>,
      <<"k","i","t","c","h","e","n">>,
      <<"f","o","o","d">>,
      <<"d","i","n","i","n","g">>,
      <<"e","a","t","e","r","y">>,
      <<"p","a","n","e","r","a">>,
      <<"c","h","i","c","k","-","f","i","l","-","a">>,
      <<"c","h","i","c","k"," ","f","i","l"," ","a">>,
      <<"w","e","n","d","y","s">>,
      <<"k","f","c">>,
      <<"p","a","n","d","a"," ","e","x","p","r","e","s","s">>,
      <<"t","a","c","o"," ","b","e","l","l">>,
      <<"c","o","f","f","e","e"," ","h","u","t">>,
      <<"d","a","i","r","y"," ","q","u","e","e","n">>,
      <<"i","n"," ","n"," ","o","u","t">>,
      <<"d","o","m","i","n","o">>,
      <<"y","o","g","u","r","t","l","a","n","d">>,
      <<"c","o","l","d","s","t","o","n","e">>,
      <<"i","c","e"," ","c","r","e","a","m">>,
      <<"w","i","n","g","s","t","o","p">>,
      <<"c","a","j","u","n">>,
      <<"b","u","r","r","i","t","o">>,
      <<"s","n","a","c","k">>,
      <<"s","a","l","t"," ","a","n","d"," ","s","t","r","a","w">>,
      <<"k","o","j","a"," ","k","i","t","c","h","e","n">>,
      <<"p","u","r","p","l","e"," ","k","o","w">>,
      <<"y","o","g","u","r","t"," ","p","a","r","k">>,
      <<"m","o","c","h","i","h","o","l","i","c">>,
      <<"b","r","i","c","k","s"," ","c","a","f","e">>,
      <<"s","w","e","e","t"," ","s","p","o","t">>,
      <<"m","a","t","c","h","a"," ","c","a","f","e">>,
      <<"i","c","e"," ","m","o","n","s","t","e","r">>,
      <<"a","n","g","r","y"," ","c","h","i","c","k","z">>,
      <<"c","a","m","p","u","s"," ","b","u","r","g","e","r","s">>,
      <<"t","o","o"," ","g","o","o","d"," ","t","o"," ","g","o">>
    >>],
    [category |-> "Groceries", keywords |-> <<
      <<"g","r","o","c","e","r","y">>,
      <<"s","u","p","e","r","m","a","r","k","e","t">>,
      <<"w","h","o","l","e"," ","f","o","o","d","s">>,
      <<"t","r","a","d","e","r"," ","j","o","e">>,
      <<"t","r","a","d","e","r"," ","j","o">>,
      <<"s","a","f","e","w","a","y">>,
      <<"k","r","o","g","e","r">>,
      <<"w","a","l","m","a","r","t">>,
      <<"t","a","r","g","e","t">>,
      <<"c","o","s","t","c","o">>,
      <<"s","a","m","'","s"," ","c","l","u","b">>,
      <<"a","l","d","i">>,
      <<"p","u","b","l","i","x">>,
      <<"w","e","g","m","a","n","s">>,
      <<"h","e","b">>,
      <<"m","a","r","k","e","t">>,
      <<"f","r","e","s","h">>,
      <<"f","o","o","d"," ","l","i","o","n">>,
      <<"g","i","a","n","t"," ","e","a","g","l","e">>,
      <<"s","t","o","p"," ","&"," ","s","h","o","p">>,
      <<"h","a","r","r","i","s"," ","t","e","e","t","e","r">>,
      <<"s","p","r","o","u","t","s">>,
      <<"d","o","l","l","a","r"," ","t","r","e","e">>,
      <<"d","o","l","l","a","r","t","r","e">>
    >>],
    [category |-> "Transportation", keywords |-> <<
      <<"u","b","e","r">>,
      <<"l","y","f","t">>,
      <<"t","a","x","i">>,
      <<"c","a","b">>,
      <<"t","r","a","n","s","i","t">>,
      <<"s","u","b","w","a","y">>,
      <<"m","e","t","r","o">>,
      <<"b","u","s">>,
      <<"t","r","a","i","n">>,
      <<"p","a","r","k","i","n","g">>,
      <<"g","a","s">>,
      <<"f","u","e","l">>,
      <<"s","h","e","l","l">>,
      <<"e","x","x","o","n">>,
      <<"c","h","e","v","r","o","n">>,
      <<"b","p">>,
      <<"m","o","b","i","l">>,
      <<"c","i","t","g","o">>,
      <<"s","p","e","e","d","w","a","y">>,
      <<"w","a","w","a">>,
      <<"c","a","r"," ","w","a","s","h">>,
      <<"a","u","t","o">>,
      <<"v","e","h","i","c","l","e">>,
      <<"d","m","v">>,
      <<"r","e","g","i","s","t","r","a","t","i","o","n">>,
      <<"t","o","l","l">>,
      <<"s","o","k","w","i","k">>
    >>],
    [category |-> "Entertainment", keywords |-> <<
      <<"m","o","v","i","e">>,
      <<"c","i","n","e","m","a">>,
      <<"t","h","e","a","t","e","r">>,
      <<"t","h","e","a","t","r","e">>,
      <<"n","e","t","f","l","i","x">>,
      <<"h","u","l","u">>,
      <<"s","p","o","t","i","f","y">>,
      <<"a","p","p","l","e"," ","m","u","s","i","c">>,
      <<"d","i","s","n","e","y">>,
      <<"h","b","o">>,
      <<"y","o","u","t","u","b","e">>,
      <<"t","w","i","t","c","h">>,
      <<"g","a","m","e">>,
      <<"g","a","m","i","n","g">>,
      <<"s","t","e","a","m">>,
      <<"p","l","a","y","s","t","a","t","i","o","n">>,
      <<"x","b","o","x">>,
      <<"n","i","n","t","e","n","d","o">>,
      <<"c","o","n","c","e","r","t">>,
      <<"t","i","c","k","e","t">>,
      <<"t","i","c","k","e","t","m","a","s","t","e","r">>,
      <<"s","t","u","b","h","u","b">>,
      <<"s","p","o","r","t","s"," ","e","v","e","n","t">>,
      <<"g","y","m">>,
      <<"f","i","t","n","e","s","s">>,
      <<"c","l","u","b">>,
      <<"m","e","m","b","e","r","s","h","i","p">>
    >>],
    [category |-> "Gambling/Sports Betting", keywords |-> <<
      <<"p","r","i","z","e","p","i","c","k","s">>,
      <<"u","n","d","e","r","d","o","g">>,
      <<"d","r","a","f","t","k","i","n","g","s">>,
      <<"f","a","n","d","u","e","l">>,
      <<"b","e","t","m","g","m">>,
      <<"c","a","e","s","a","r","s">>,
      <<"p","o","i","n","t","s","b","e","t">>,
      <<"b","e","t","3","6","5">>,
      <<"u","n","i","b","e","t">>,
      <<"b","o","v","a","d","a">>,
      <<"m","y","b","o","o","k","i","e">>,
      <<"b","e","t"," ","o","n","l","i","n","e">>,
      <<"s","p","o","r","t","s"," ","b","e","t">>,
      <<"c","a","s","i","n","o">>,
      <<"p","o","k","e","r">>,
      <<"s","l","o","t","s">>,
      <<"l","o","t","t","e","r","y">>,
      <<"s","c","r","a","t","c","h">>,
      <<"g","a","m","b","l","i","n","g">>
    >>],
    [category |-> "Subscriptions", keywords |-> <<
      <<"w","h","o","p">>,
      <<"p","a","t","r","e","o","n">>,
      <<"o","n","l","y","f","a","n","s">>,
      <<"s","u","b","s","t","a","c","k">>,
      <<"c","h","a","t","g","p","t">>,
      <<"o","p","e","n","a","i">>,
      <<"a","d","o","b","e">>,
      <<"o","f","f","i","c","e"," ","3","6","5">>,
      <<"i","c","l","o","u","d">>,
      <<"d","r","o","p","b","o","x">>,
      <<"g","o","o","g","l","e"," ","o","n","e">>,
      <<"y","o","u","t","u","b","e"," ","p","r","e","m","i","u","m">>,
      <<"s","p","o","t","i","f","y"," ","p","r","e","m","i","u","m">>,
      <<"a","p","p","l","e"," ","o","n","e">>,
      <<"m","i","c","r","o","s","o","f","t"," ","3","6","5">>,
      <<"c","r","e","a","t","i","v","e"," ","c","l","o","u","d">>,
      <<"z","o","o","m">>,
      <<"s","l","a","c","k">>,
      <<"n","o","t","i","o","n">>,
      <<"c","a","n","v","a">>,
      <<"g","r","a","m","m","a","r","l","y">>,
      <<"m","e","d","i","u","m">>,
      <<"s","c","r","i","b","d">>,
      <<"p","r","i","m","e"," ","v","i","d","e","o">>,
      <<"w","a","l","t","e","r"," ","a","i">>,
      <<"a","g","e","n","t"," ","e","o"," ","p","r","e","m","i","u","m">>,
      <<"w","o","r","l","d","f","i","n","a","n","c","i","a","l","g","r","o","u","p">>,
      <<"a","m","a","z","o","n"," ","p","r","i","m","e">>,
      <<"a","p","p","l","e",".","c","o","m"," ","b","i","l","l">>,
      <<"a","p","p","l","e"," ","c","o","m"," ","b","i","l","l">>,
      <<"a","p","p","l","e"," ","b","i","l","l">>
    >>],
    [category |-> "Transfers", keywords |-> <<
      <<"a","p","p","l","e"," ","c","a","s","h">>,
      <<"a","p","p","l","e"," ","p","a","y"," ","b","a","l","a","n","c","e">>,
      <<"v","e","n","m","o">>,
      <<"z","e","l","l","e">>,
      <<"p","a","y","p","a","l">>,
      <<"c","a","s","h"," ","a","p","p">>,
      <<"g","o","o","g","l","e"," ","p","a","y">>,
      <<"f","a","c","e","b","o","o","k"," ","p","a","y">>,
      <<"t","r","a","n","s","f","e","r"," ","t","o">>,
      <<"t","r","a","n","s","f","e","r"," ","f","r","o","m">>,
      <<"p","m","n","t"," ","s","e","n","t">>,
      <<"p","m","n","t"," ","r","e","c","e","i","v","e","d">>,
      <<"p","2","p"," ","t","r","a","n","s","f","e","r">>,
      <<"p","e","e","r"," ","t","o"," ","p","e","e","r">>,
      <<"b","a","l","a","n","c","e"," ","a","d","d">>,
      <<"b","a","l","a","n","c","e"," ","t","r","a","n","s","f","e","r">>,
      <<"p","c"," ","t","r","a","n","s","f","e","r">>,
      <<"p","p","d">>,
      <<"c","a","s","h","o","u","t">>,
      <<"d","i","r","e","c","t"," ","p","a","y">>,
      <<"d","i","r","e","c","t"," ","d","e","p","o","s","i","t">>
    >>],
    [category |-> "Shopping", keywords |-> <<
      <<"a","m","a","z","o","n">>,
      <<"e","b","a","y">>,
      <<"e","t","s","y">>,
      <<"s","h","o","p">>,
      <<"s","t","o","r","e">>,
      <<"m","a","l","l">>,
      <<"r","e","t","a","i","l">>,
      <<"b","e","s","t"," ","b","u","y">>,
      <<"a","p","p","l","e"," ","s","t","o","r","e">>,
      <<"n","i","k","e">>,
      <<"a","d","i","d","a","s">>,
      <<"m","a","c","y">>,
      <<"n","o","r","d","s","t","r","o","m">>,
      <<"g","a","p">>,
      <<"z","a","r","a">>,
      <<"h","&","m">>,
      <<"f","o","r","e","v","e","r"," ","2","1">>,
      <<"o","l","d"," ","n","a","v","y">>,
      <<"t","j"," ","m","a","x","x">>,
      <<"m","a","r","s","h","a","l","l","s">>,
      <<"r","o","s","s">>,
      <<"k","o","h","l","s">>,
      <<"j","c","p","e","n","n","e","y">>,
      <<"s","e","p","h","o","r","a">>,
      <<"u","l","t","a">>,
      <<"h","o","m","e"," ","d","e","p","o","t">>,
      <<"l","o","w","e","s">>,
      <<"i","k","e","a">>,
      <<"f","u","r","n","i","t","u","r","e">>,
      <<"c","l","o","t","h","i","n","g">>,
      <<"a","p","p","a","r","e","l">>,
      <<"c","s","c","s","w">>,
      <<"t","e","m","u">>,
      <<"s","h","e","i","n">>,
      <<"w","i","s","h">>,
      <<"a","l","i","e","x","p","r","e","s","s">>,
      <<"w","a","y","f","a","i","r">>,
      <<"f","a","s","h","i","o","n","n","o","v","a">>,
      <<"t","i","k","t","o","k"," ","s","h","o","p">>,
      <<"s","h","o","p"," ","m","i","s","s"," ","a">>
    >>],
    [category |-> "Bills & Utilities", keywords |-> <<
      <<"e","l","e","c","t","r","i","c">>,
      <<"e","l","e","c","t","r","i","c","i","t","y">>,
      <<"p","o","w","e","r">>,
      <<"g","a","s"," ","c","o","m","p","a","n","y">>,
      <<"w","a","t","e","r">>,
      <<"i","n","t","e","r","n","e","t">>,
      <<"c","a","b","l","e">>,
      <<"p","h","o","n","e">>,
      <<"m","o","b","i","l","e">>,
      <<"v","e","r","i","z","o","n">>,
      <<"a","t","&","t">>,
      <<"t","-","m","o","b","i","l","e">>,
      <<"s","p","r","i","n","t">>,
      <<"c","o","m","c","a","s","t">>,
      <<"x","f","i","n","i","t","y">>,
      <<"s","p","e","c","t","r","u","m">>,
      <<"u","t","i","l","i","t","y">>,
      <<"b","i","l","l"," ","p","a","y","m","e","n","t">>,
      <<"i","n","s","u","r","a","n","c","e">>,
      <<"r","e","n","t">>,
      <<"m","o","r","t","g","a","g","e">>,
      <<"l","o","a","n">>,
      <<"c","r","e","d","i","t"," ","c","a","r","d"," ","p","a","y","m","e","n","t">>,
      <<"b","a","n","k"," ","f","e","e">>
    >>],
    [category |-> "Health", keywords |-> <<
      <<"p","h","a","r","m","a","c","y">>,
      <<"c","v","s">>,
      <<"w","a","l","g","r","e","e","n","s">>,
      <<"r","i","t","e"," ","a","i","d">>,
      <<"m","e","d","i","c","a","l">>,
      <<"h","o","s","p","i","t","a","l">>,
      <<"d","o","c","t","o","r">>,
      <<"c","l","i","n","i","c">>,
      <<"h","e","a","l","t","h">>,
      <<"d","e","n","t","a","l">>,
      <<"d","e","n","t","i","s","t">>,
      <<"v","i","s","i","o","n">>,
      <<"o","p","t","o","m","e","t","r","y">>,
      <<"p","r","e","s","c","r","i","p","t","i","o","n">>,
      <<"m","e","d","i","c","i","n","e">>,
      <<"w","e","l","l","n","e","s","s">>,
      <<"t","h","e","r","a","p","y">>,
      <<"c","o","u","n","s","e","l","i","n","g">>,
      <<"u","r","g","e","n","t"," ","c","a","r","e">>,
      <<"e","m","e","r","g","e","n","c","y">>,
      <<"l","a","b">>,
      <<"t","e","s","t">>
    >>],
    [category |-> "Income", keywords |-> <<
      <<"s","a","l","a","r","y">>,
      <<"p","a","y","r","o","l","l">>,
      <<"d","e","p","o","s","i","t">>,
      <<"d","i","r","e","c","t"," ","d","e","p","o","s","i","t">>,
      <<"p","a","y","m","e","n","t"," ","r","e","c","e","i","v","e","d">>,
      <<"r","e","f","u","n","d">>,
      <<"r","e","i","m","b","u","r","s","e","m","e","n","t">>,
      <<"b","o","n","u","s">>,
      <<"d","i","v","i","d","e","n","d">>,
      <<"i","n","t","e","r","e","s","t">>,
      <<"c","a","s","h","b","a","c","k">>,
      <<"r","e","w","a","r","d">>,
      <<"c","r","e","d","i","t"," ","v","i","a"," ","t","r","u","s","t">>
    >>]
  >>

\* The categories in declaration (dict insertion) order.
NumCategories == Len(CATEGORY_KEYWORDS)

\* Inner loop of classify (lines 127-131): the score of one keyword list.
RECURSIVE ScoreKeywords(_, _)
ScoreKeywords(keywords, description_lower) ==
    IF keywords = <<>> THEN 0
    ELSE LET keyword == Head(keywords)
         IN  (IF Contains(Lower(keyword), description_lower) THEN Len(keyword) ELSE 0)
             + ScoreKeywords(Tail(keywords), description_lower)

\* category_scores (lines 124-132), as the sequence of scores in dict order.
RECURSIVE CategoryScores(_, _)
CategoryScores(categories, description_lower) ==
    IF categories = <<>> THEN <<>>
    ELSE <<ScoreKeywords(Head(categories).keywords, description_lower)>>
         \o CategoryScores(Tail(categories), description_lower)

\* A max() that keeps the last of several equal maxima.
RECURSIVE MaxKeyLast(_, _, _)
MaxKeyLast(scores, c, best) ==
    IF c > Len(scores) THEN best
    ELSE MaxKeyLast(scores, c + 1, IF scores[c] >= scores[best] THEN c ELSE best)

\* Python max(category_scores, key=category_scores.get): iterates in dict
\* order and keeps a later key only when its score is strictly greater.
RECURSIVE MaxKey(_, _, _)
MaxKey(scores, c, best) ==
    IF c > Len(scores) THEN best
    ELSE MaxKey(scores, c + 1, IF scores[c] > scores[best] THEN c ELSE best)

\* A classify that scores the keywords before it looks at the sign.
classifyKeywordsFirst(desc, amt) ==
    LET category_scores == CategoryScores(CATEGORY_KEYWORDS, Lower(desc))
        best_category == MaxKey(category_scores, 2, 1)
    IN  IF category_scores[best_category] > 0
        THEN CATEGORY_KEYWORDS[best_category].category
        ELSE IF Positive(amt) THEN "Income" ELSE "Other"

\* RuleBasedClassifier.classify (lines 105-141)
classify(desc, amt) ==
    IF Positive(amt) THEN "Income"
    ELSE LET description_lower == Lower(desc)
             category_scores == CategoryScores(CATEGORY_KEYWORDS, description_lower)
             best_category == MaxKey(category_scores, 2, 1)
         IN  IF category_scores[best_category] > 0
             THEN CATEGORY_KEYWORDS[best_category].category
             ELSE "Other"

-----------------------------------------------------------------------------
(* Inputs of the classifier specification.                                 *)

\* Longest description, in fragments, given to classify.
MaxWords == 2

\* Description fragments; descriptions are concatenations of up to MaxWords.
DescriptionWords ==
    {
      <<"S","T","A","R","B","U","C","K","S"," ">>,
      <<"C","O","F","F","E","E"," ","#","1","2","3">>,
      <<"s","u","b","w","a","y"," ">>,
      <<"t","a","x","i"," ">>,
      <<"t","a","x","i"," ","P","i","z","z","a">>,
      <<"R","e","f","u","n","d"," ">>,
      <<"W","a","l","m","a","r","t">>,
      <<"x","y","z"," ">>
    }

RECURSIVE Concats(_, _)
Concats(words, n) ==
    IF n = 0 THEN {<<>>}
    ELSE LET shorter == Concats(words, n - 1)
         IN  shorter \cup {d \o w : d \in shorter, w \in words}

\* Amounts: an expense (-5.75), zero, an income (0.01).
Amounts == {Num(-575, 2), Num(0, 0), Num(1, 2)}

InitClassify ==
    /\ pc = "call"
    /\ description \in Concats(DescriptionWords, MaxWords)
    /\ amount \in Amounts
    /\ category = NoResult
    /\ merchant = <<>>
    /\ TableIdle
    /\ CleanIdle
    /\ AppIdle
    /\ FileIdle

\* One call classifier.classify(description, amount).
Classify ==
    /\ pc = "call"
    /\ pc' = "done"
    /\ category' = classify(description, amount)
    /\ UNCHANGED <<appVars, description, amount, merchant, tableVars, cleanVars, fileVars>>

NextClassify == Classify

SpecClassify == InitClassify /\ [][NextClassify]_vars

-----------------------------------------------------------------------------
(* src/utils.py: extract_merchant_name                                     *)

\* prefixes_to_remove (lines 164-171)
prefixes_to_remove ==
    <<
      <<"D","E","B","I","T"," ","C","A","R","D"," ","P","U","R","C","H","A","S","E"," ","-"," ">>,
      <<"P","U","R","C","H","A","S","E"," ","A","U","T","H","O","R","I","Z","E","D"," ","O","N"," ">>,
      <<"C","A","R","D"," ","P","U","R","C","H","A","S","E"," ","-"," ">>,
      <<"P","A","Y","M","E","N","T"," ","T","O"," ">>,
      <<"T","R","A","N","S","F","E","R"," ","T","O"," ">>,
      <<"T","R","A","N","S","F","E","R"," ","F","R","O","M"," ">>
    >>

\* Number of characters kept by description[:50] (line 178).
MERCHANT_MAX_LEN == 50

\* A prefix loop that stops at the first prefix it removes.
RECURSIVE StripFirstPrefix(_, _)
StripFirstPrefix(prefixes, d) ==
    IF prefixes = <<>> THEN d
    ELSE IF StartsWith(d, Head(prefixes))
         THEN Drop(d, Len(Head(prefixes)))
         ELSE StripFirstPrefix(Tail(prefixes), d)

\* The loop of lines 173-175: every prefix of the list is tested, in list
\* order, against the text as the earlier iterations left it.
RECURSIVE StripPrefixes(_, _)
StripPrefixes(prefixes, d) ==
    IF prefixes = <<>> THEN d
    ELSE StripPrefixes(Tail(prefixes),
                       IF StartsWith(d, Head(prefixes))
                       THEN Drop(d, Len(Head(prefixes)))
                       ELSE d)

\* extract_merchant_name (lines 149-180)
extract_merchant_name(desc) ==
    LET upper == Strip(Upper(desc))
        stripped == StripPrefixes(prefixes_to_remove, upper)
        cut == Strip(Take(stripped, MERCHANT_MAX_LEN))
    IN  IF cut # <<>> THEN cut ELSE Unknown

\* Longest description, in parts, given to extract_merchant_name.
MaxParts == 3

WALMART_LONG ==
    <<"W","a","l","m","a","r","t"," ","#","1","2","3","4","5","6","7","8","9","0",
      "1","2","3","4","5","6","7","8","9","0","1","2","3","4","5","6","7","8","9","0">>

MerchantParts ==
    {
      <<"D","e","b","i","t"," ","C","a","r","d"," ","P","u","r","c","h","a","s","e"," ","-"," ">>,
      <<"C","A","R","D"," ","P","U","R","C","H","A","S","E"," ","-"," ">>,
      <<"P","a","y","m","e","n","t"," ","t","o"," ">>,
      <<"T","R","A","N","S","F","E","R"," ","F","R","O","M"," ">>,
      WALMART_LONG,
      <<"S","h","e","l","l">>,
      <<" ">>
    }

InitMerchant ==
    /\ pc = "call"
    /\ description \in Concats(MerchantParts, MaxParts)
    /\ amount = Num(0, 0)
    /\ category = NoResult
    /\ merchant = <<>>
    /\ TableIdle
    /\ CleanIdle
    /\ AppIdle
    /\ FileIdle

\* One call extract_merchant_name(description).
ExtractMerchant ==
    /\ pc = "call"
    /\ pc' = "done"
    /\ merchant' = extract_merchant_name(description)
    /\ UNCHANGED <<appVars, description, amount, category, tableVars, cleanVars, fileVars>>

NextMerchant == ExtractMerchant

SpecMerchant == InitMerchant /\ [][NextMerchant]_vars

-----------------------------------------------------------------------------
(* src/utils.py: add_derived_columns                                       *)

S_transaction_type == <<"t","r","a","n","s","a","c","t","i","o","n","_","t","y","p","e">>

S_abs_amount == <<"a","b","s","_","a","m","o","u","n","t">>

S_month == <<"m","o","n","t","h">>

S_year == <<"y","e","a","r">>

S_month_year == <<"m","o","n","t","h","_","y","e","a","r">>

S_category == <<"c","a","t","e","g","o","r","y">>

\* A categorize_transaction_type that counts a zero amount as income.
categorize_transaction_type_zero_income(amt) ==
    IF amt.m >= 0 THEN "Income" ELSE "Expense"

\* categorize_transaction_type (lines 97-107)
categorize_transaction_type(amt) == IF Positive(amt) THEN "Income" ELSE "Expense"

\* get_absolute_amount (lines 110-120)
get_absolute_amount(amt) == Abs(amt)

\* The decimal digits of n, zero-padded to the given width.
RECURSIVE ZeroPadded(_, _)
ZeroPadded(n, width) ==
    IF width = 0 THEN <<>>
    ELSE ZeroPadded(n \div 10, width - 1) \o <<DIGITS[(n % 10) + 1]>>

\* .dt.to_period('M') (line 142): the month of a date, as the key yyyymm.
ToPeriodM(date) == date \div 100

\* .dt.year (line 143)
Year(date) == date \div 10000

\* .dt.strftime('%Y-%m') (line 144)
StrftimeYm(date) ==
    ZeroPadded(Year(date), 4) \o <<"-">> \o ZeroPadded(ToPeriodM(date) % 100, 2)

\* add_derived_columns (lines 123-146): five columns appended to a copy.
add_derived_columns(table) ==
    [columns |-> table.columns \o
                 <<S_transaction_type, S_abs_amount, S_month, S_year, S_month_year>>,
     rows |-> <<>> \o [k \in 1..Len(table.rows) |->
                 [date |-> table.rows[k].date,
                  description |-> table.rows[k].description,
                  amount |-> table.rows[k].amount,
                  transaction_type |-> categorize_transaction_type(table.rows[k].amount),
                  abs_amount |-> get_absolute_amount(table.rows[k].amount),
                  month |-> ToPeriodM(table.rows[k].date),
                  year |-> Year(table.rows[k].date),
                  month_year |-> StrftimeYm(table.rows[k].date)]]]

\* Most rows of a table given to add_derived_columns.
MaxDerivedRows == 2

\* Rows as clean_csv_data returns them: a date key, a text, a number.
DerivedInputRows ==
    {[date |-> d, description |-> Unknown, amount |-> a] :
        d \in {20231231, 20240115, 20240229},
        a \in {Num(-575, 2), Num(0, 0), Num(123456, 2)}}

\* The cleaned tables of at most n rows, in date order.
DerivedInputs(n) ==
    {[columns |-> required, rows |-> <<>> \o rows] :
        rows \in {r \in UNION {[1..k -> DerivedInputRows] : k \in 0..n} :
                     \A i, j \in DOMAIN r : i < j => r[i].date <= r[j].date}}

InitDerive ==
    /\ pc = "call"
    /\ df_clean \in DerivedInputs(MaxDerivedRows)
    /\ removed_rows = <<>>
    /\ error = NoneText
    /\ AppIdle
    /\ TableIdle
    /\ TextIdle
    /\ FileIdle

\* One call df_enhanced = add_derived_columns(df_clean).
AddDerivedColumns ==
    /\ pc = "call"
    /\ pc' = "derived"
    /\ df_enhanced' = add_derived_columns(df_clean)
    /\ UNCHANGED <<session_state, main_auto_detect, main_skip_rows, classifier_choice,
                   classifier_type, auto_detect, stages, displayed, outcome, tableVars,
                   cleanVars, textVars, fileVars>>

NextDerive == AddDerivedColumns

SpecDerive == InitDerive /\ [][NextDerive]_vars

-----------------------------------------------------------------------------
(* src/classifier.py: classify_batch, get_classifier                       *)

\* RuleBasedClassifier.classify_batch (lines 143-154): zip stops at the
\* shorter list.
classify_batch(descriptions, amounts) ==
    LET n == IF Len(descriptions) < Len(amounts) THEN Len(descriptions) ELSE Len(amounts)
    IN  <<>> \o [k \in 1..n |-> classify(descriptions[k], amounts[k])]

\* The number of parameters of get_classifier (classifier.py line 157:
\* def get_classifier()).
GET_CLASSIFIER_PARAMS == 0

\* The number of arguments of the call get_classifier(classifier_type)
\* (app.py line 213).
GET_CLASSIFIER_ARGS == 1

\* A call of a function without default or variadic parameters raises
\* TypeError unless it passes as many arguments as there are parameters.
RaisesTypeError(params, args) == args # params

\* str(e) of the TypeError of the call of app.py line 213.
GET_CLASSIFIER_TYPE_ERROR ==
    <<"g","e","t","_","c","l","a","s","s","i","f","i","e","r","(",")"," ","t","a","k","e","s"," ","0"," ","p","o","s","i","t","i","o","n","a","l"," ","a","r","g","u","m","e","n","t","s"," ","b","u","t"," ","1"," ","w","a","s"," ","g","i","v","e","n">>

-----------------------------------------------------------------------------
(* src/app.py: main and process_uploaded_file. Streamlit runs main again   *)
(* after every change of a widget; st.session_state outlives the runs.     *)

\* The locals of process_uploaded_file and the outputs of a run, as they
\* are when a run of main starts.
RunStarts ==
    /\ position' = 0
    /\ reads' = <<>>
    /\ detected_skip' = 0
    /\ df' = None
    /\ df_normalized' = None
    /\ is_valid' = FALSE
    /\ error_msg' = NoneText
    /\ df_clean' = None
    /\ removed_rows' = <<>>
    /\ error' = NoneText
    /\ stages' = <<>>
    /\ df_enhanced' = None
    /\ displayed' = None

\* Largest value of the skip-rows input, and most summary rows above the
\* header of an uploaded file.
MaxSkipInput == 2

R_SALARY == <<<<"2","0","2","4","-","0","1","-","0","2">>, <<"P","a","y","r","o","l","l"," ","D","e","p","o","s","i","t">>, <<"2","5","0","0",".","0","0">>, <<"2","6","0","0">>>>

R_SAMEDAY == <<<<"2","0","2","4","-","0","1","-","1","5">>, <<"S","h","e","l","l"," ","G","a","s">>, <<"-","4","0",".","0","0">>, <<"6","0">>>>

R_BADAMOUNT == <<<<"2","0","2","4","-","0","1","-","2","0">>, <<"R","e","f","u","n","d">>, <<"a","b","c">>, <<"1">>>>

\* What follows the summary rows of an uploaded file.
Bodies ==
    {<<R_HEADER, R_DATA4, R_SALARY>>,
     <<R_HEADER, R_DATA4, R_SAMEDAY>>,
     <<R_HEADER, R_BADAMOUNT, R_LONG>>,
     <<R_HEADER_LONG, R_DATA>>,
     <<R_PARTIAL, R_DATA>>,
     <<R_HEADER>>,
     <<>>}

\* The files a user may upload: up to n summary rows and a body, and a
\* file that is not UTF-8.
AppFiles(n) ==
    {[decodes |-> TRUE, lines |-> Repeat(R_SUMMARY, k) \o body] :
        k \in 0..n, body \in Bodies}
    \cup {[decodes |-> FALSE, lines |-> <<R_HEADER, R_DATA4>>]}

Init ==
    /\ pc = "ready"
    /\ uploaded_file = None
    /\ position = 0
    /\ reads = <<>>
    /\ skip_rows = 0
    /\ detected_skip = 0
    /\ AppIdle
    /\ TableIdle
    /\ CleanIdle
    /\ TextIdle

\* The user uploads a file, or removes it (lines 48-52).
UploadFile ==
    /\ pc = "ready"
    /\ \E file \in AppFiles(MaxSkipInput) \cup {None} :
        /\ file # uploaded_file
        /\ uploaded_file' = file
    /\ pc' = "main"
    /\ UNCHANGED <<position, reads, skip_rows, detected_skip, appVars, tableVars,
                   cleanVars, textVars>>

\* The user ticks or unticks the auto-detect checkbox (lines 59-63).
SetAutoDetect ==
    /\ pc = "ready"
    /\ main_auto_detect' = ~main_auto_detect
    /\ pc' = "main"
    /\ UNCHANGED <<session_state, main_skip_rows, classifier_choice, classifier_type,
                   auto_detect, stages, df_enhanced, displayed, outcome, fileVars,
                   tableVars, cleanVars, textVars>>

\* The user changes the skip-rows input (lines 65-72), which is disabled
\* while the checkbox is ticked (line 71).
SetSkipRows ==
    /\ pc = "ready"
    /\ ~main_auto_detect
    /\ \E n \in 0..MaxSkipInput :
        /\ n # main_skip_rows
        /\ main_skip_rows' = n
    /\ pc' = "main"
    /\ UNCHANGED <<session_state, main_auto_detect, classifier_choice, classifier_type,
                   auto_detect, stages, df_enhanced, displayed, outcome, fileVars,
                   tableVars, cleanVars, textVars>>

\* The user picks the other classifier (lines 79-84).
SetClassifierType ==
    /\ pc = "ready"
    /\ classifier_choice' = IF classifier_choice = "ml" THEN "rule-based" ELSE "ml"
    /\ pc' = "main"
    /\ UNCHANGED <<session_state, main_auto_detect, main_skip_rows, classifier_type,
                   auto_detect, stages, df_enhanced, displayed, outcome, fileVars,
                   tableVars, cleanVars, textVars>>

\* main (lines 33-116): 'ml' is replaced by 'rule-based' (lines 86-88);
\* without a file the landing page is shown (line 111); with one,
\* process_uploaded_file is called with skip_rows and auto_detect taken
\* from st.session_state (lines 114-116).
Main ==
    /\ pc = "main"
    /\ classifier_type' = "rule-based"
    /\ RunStarts
    /\ IF uploaded_file = None
       THEN /\ outcome' = "landing"
            /\ pc' = "ready"
            /\ UNCHANGED <<skip_rows, auto_detect>>
       ELSE /\ outcome' = "none"
            /\ skip_rows' = Get(session_state, "skip_rows", 0)
            /\ auto_detect' = Get(session_state, "auto_detect", TRUE)
            /\ pc' = "process"
    /\ UNCHANGED <<uploaded_file, session_state, main_auto_detect, main_skip_rows,
                   classifier_choice, textVars>>

\* process_uploaded_file, lines 157-169: the settings are stored, and the
\* header row is detected when auto_detect is set.
StoreSettingsAndDetect ==
    /\ pc = "process"
    /\ session_state' = SetItem(SetItem(session_state, "skip_rows", skip_rows),
                                "auto_detect", auto_detect)
    /\ IF auto_detect
       THEN /\ detected_skip' = detect_header_row(uploaded_file)
            /\ skip_rows' = IF detected_skip' > 0 THEN detected_skip' ELSE skip_rows
            /\ reads' = Append(reads, Read("detect_header_row", 0))
            /\ stages' = Append(stages, "detect_header_row")
       ELSE UNCHANGED <<detected_skip, skip_rows, reads, stages>>
    /\ pc' = "read"
    /\ UNCHANGED <<uploaded_file, position, main_auto_detect, main_skip_rows,
                   classifier_choice, classifier_type, auto_detect, df_enhanced,
                   displayed, outcome, tableVars, cleanVars, textVars>>

\* Lines 172-177: the file is read; without a table the run ends with the
\* message of line 175.
ReadFile ==
    /\ pc = "read"
    /\ df' = smart_read_csv(uploaded_file, skip_rows).df
    /\ reads' = reads \o smart_read_csv(uploaded_file, skip_rows).reads
    /\ position' = Len(uploaded_file.lines)
    /\ stages' = Append(stages, "smart_read_csv")
    /\ IF df' = None
       THEN outcome' = "unparseable" /\ pc' = "ready"
       ELSE outcome' = outcome /\ pc' = "normalize"
    /\ UNCHANGED <<uploaded_file, skip_rows, detected_skip, session_state,
                   main_auto_detect, main_skip_rows, classifier_choice, classifier_type,
                   auto_detect, df_enhanced, displayed, df_normalized, is_valid,
                   error_msg, cleanVars, textVars>>

\* Line 180: df = normalize_column_names(df); the model keeps the table as
\* read in df and the normalized one in df_normalized.
Normalize ==
    /\ pc = "normalize"
    /\ df_normalized' = normalize_column_names(df)
    /\ stages' = Append(stages, "normalize_column_names")
    /\ pc' = "validate"
    /\ UNCHANGED <<df, is_valid, error_msg, session_state, main_auto_detect,
                   main_skip_rows, classifier_choice, classifier_type, auto_detect,
                   df_enhanced, displayed, outcome, fileVars, cleanVars, textVars>>

\* Lines 183-194: the structure is validated; an invalid table ends the run
\* with the validation message.
Validate ==
    /\ pc = "validate"
    /\ is_valid' = validate_csv_structure(df_normalized)[1]
    /\ error_msg' = validate_csv_structure(df_normalized)[2]
    /\ stages' = Append(stages, "validate_csv_structure")
    /\ IF is_valid'
       THEN outcome' = outcome /\ pc' = "clean"
       ELSE outcome' = "invalid" /\ pc' = "ready"
    /\ UNCHANGED <<df, df_normalized, session_state, main_auto_detect, main_skip_rows,
                   classifier_choice, classifier_type, auto_detect, df_enhanced,
                   displayed, fileVars, cleanVars, textVars>>

\* A clean stage that ends the run when clean_csv_data removed a row.
CleanAndDeriveStopsOnRemovedRows ==
    /\ pc = "clean"
    /\ \E result \in clean_csv_data(df_normalized) :
        /\ df_clean' = result[1]
        /\ removed_rows' = result[2]
    /\ IF removed_rows' # <<>>
       THEN /\ outcome' = "invalid"
            /\ pc' = "ready"
            /\ stages' = Append(stages, "clean_csv_data")
            /\ UNCHANGED df_enhanced
       ELSE /\ outcome' = outcome
            /\ pc' = "classify"
            /\ stages' = stages \o <<"clean_csv_data", "add_derived_columns">>
            /\ df_enhanced' = add_derived_columns(df_clean')
    /\ UNCHANGED <<error, session_state, main_auto_detect, main_skip_rows,
                   classifier_choice, classifier_type, auto_detect, displayed,
                   fileVars, tableVars, textVars>>

\* Lines 197-199: the table is cleaned and the derived columns are added.
CleanAndDerive ==
    /\ pc = "clean"
    /\ \E result \in clean_csv_data(df_normalized) :
        /\ df_clean' = result[1]
        /\ removed_rows' = result[2]
    /\ df_enhanced' = add_derived_columns(df_clean')
    /\ stages' = stages \o <<"clean_csv_data", "add_derived_columns">>
    /\ pc' = "classify"
    /\ UNCHANGED <<error, session_state, main_auto_detect, main_skip_rows,
                   classifier_choice, classifier_type, auto_detect, displayed, outcome,
                   fileVars, tableVars, textVars>>

\* The column of a table, as a list (.tolist()).
Column(table, name) ==
    <<>> \o [k \in 1..Len(table.rows) |-> table.rows[k][name]]

\* df_enhanced['category'] = categories (line 218)
WithCategory(table, categories) ==
    [columns |-> table.columns \o <<S_category>>,
     rows |-> <<>> \o [k \in 1..Len(table.rows) |->
                 [f \in DOMAIN table.rows[k] \cup {"category"} |->
                     IF f = "category" THEN categories[k] ELSE table.rows[k][f]]]]

\* Lines 212-228: get_classifier(classifier_type) is called; the TypeError
\* it raises is caught at line 226 and reported. Were the call to return,
\* the rows would be classified, the table stored in st.session_state and
\* handed to display_results.
ClassifyAndDisplay ==
    /\ pc = "classify"
    /\ IF RaisesTypeError(GET_CLASSIFIER_PARAMS, GET_CLASSIFIER_ARGS)
       THEN /\ stages' = Append(stages, "get_classifier")
            /\ error' = GET_CLASSIFIER_TYPE_ERROR
            /\ outcome' = "error"
            /\ UNCHANGED <<df_enhanced, session_state, displayed>>
       ELSE /\ stages' = stages \o <<"get_classifier", "classify_batch", "display_results">>
            /\ df_enhanced' = WithCategory(df_enhanced,
                                  classify_batch(Column(df_enhanced, "description"),
                                                 Column(df_enhanced, "amount")))
            /\ session_state' = SetItem(session_state, "df_processed", df_enhanced')
            /\ displayed' = df_enhanced'
            /\ outcome' = "displayed"
            /\ error' = error
    /\ pc' = "ready"
    /\ UNCHANGED <<df_clean, removed_rows, main_auto_detect, main_skip_rows,
                   classifier_choice, classifier_type, auto_detect, fileVars, tableVars,
                   textVars>>

Next ==
    \/ UploadFile
    \/ SetAutoDetect
    \/ SetSkipRows
    \/ SetClassifierType
    \/ Main
    \/ StoreSettingsAndDetect
    \/ ReadFile
    \/ Normalize
    \/ Validate
    \/ CleanAndDerive
    \/ ClassifyAndDisplay

Spec == Init /\ [][Next]_vars

-----------------------------------------------------------------------------
(* Claims about classify, checked under SpecClassify.                      *)

\* Some keyword of some category other than Income occurs in d.
HasExpenseKeyword(d) ==
    \E c \in 1..NumCategories :
        /\ CATEGORY_KEYWORDS[c].category # "Income"
        /\ \E k \in 1..Len(CATEGORY_KEYWORDS[c].keywords) :
               Contains(CATEGORY_KEYWORDS[c].keywords[k], Lower(d))

\* C3: classify returns 'Income' for every description whenever amount > 0,
\* also when the description contains keywords of expense categories.
C3_PositiveAmountIsIncome ==
    (pc = "done" /\ Positive(amount)) => category = "Income"

\* C3 witness: a positive amount with an expense keyword in the description
\* has been classified.
C3_Witness ==
    /\ pc = "done"
    /\ Positive(amount)
    /\ HasExpenseKeyword(description)

RECURSIVE SumLen(_, _)
SumLen(keywords, ks) ==
    IF ks = {} THEN 0
    ELSE LET k == CHOOSE x \in ks : TRUE
         IN  Len(keywords[k]) + SumLen(keywords, ks \ {k})

\* The score the claim gives category c: the lengths of the keywords that
\* occur at least once in the lower-cased description, each counted once.
ClaimedScore(c, d) ==
    LET keywords == CATEGORY_KEYWORDS[c].keywords
    IN  SumLen(keywords, {k \in 1..Len(keywords) : Contains(keywords[k], Lower(d))})

\* The category the claim names for a description with amount <= 0.
ClaimedCategory(d) ==
    LET score == [c \in 1..NumCategories |-> ClaimedScore(c, d)]
        top == CHOOSE m \in {score[c] : c \in 1..NumCategories} :
                   \A c \in 1..NumCategories : score[c] <= m
        first == CHOOSE c \in 1..NumCategories :
                     /\ score[c] = top
                     /\ \A b \in 1..(c - 1) : score[b] < top
    IN  IF top = 0 THEN "Other" ELSE CATEGORY_KEYWORDS[first].category

STARBUCKS_COFFEE_123 ==
    <<"S","T","A","R","B","U","C","K","S"," ","C","O","F","F","E","E"," ","#","1","2","3">>

\* C4: for amount <= 0 (zero included) classify returns the first category in
\* declaration order that reaches the maximum keyword-length score, or 'Other'
\* when that maximum is 0; classify('', -5.75) = 'Other' and
\* classify('STARBUCKS COFFEE #123', -5.75) = 'Food & Dining'.
C4_FirstMaxScoreOrOther ==
    (pc = "done" /\ ~Positive(amount)) =>
        /\ category = ClaimedCategory(description)
        /\ description = <<>> => category = "Other"
        /\ description = STARBUCKS_COFFEE_123 => category = "Food & Dining"

\* C4 witness: a zero amount whose description ('subway ') scores the same
\* for Food & Dining and Transportation has been classified as the former.
C4_Witness ==
    /\ category = "Food & Dining"
    /\ amount = Num(0, 0)
    /\ description = <<"s","u","b","w","a","y"," ">>
    /\ ClaimedScore(1, description) = ClaimedScore(3, description)

-----------------------------------------------------------------------------
(* Claims about extract_merchant_name, checked under SpecMerchant.         *)

\* The text the claim describes: at most one prefix, the first listed one
\* the upper-cased trimmed text starts with, is removed.
ClaimedMerchantOnePrefix(d) ==
    LET upper == Strip(Upper(d))
        matching == {i \in 1..Len(prefixes_to_remove) :
                        StartsWith(upper, prefixes_to_remove[i])}
        rest == IF matching = {} THEN upper
                ELSE LET i == CHOOSE x \in matching : \A y \in matching : x <= y
                     IN  Drop(upper, Len(prefixes_to_remove[i]))
        cut == Strip(Take(rest, MERCHANT_MAX_LEN))
    IN  IF cut = <<>> THEN Unknown ELSE cut

PassOverPrefixes(upper) ==
    LET text[i \in 0..Len(prefixes_to_remove)] ==
            IF i = 0 THEN upper
            ELSE IF StartsWith(text[i - 1], prefixes_to_remove[i])
                 THEN Drop(text[i - 1], Len(prefixes_to_remove[i]))
                 ELSE text[i - 1]
    IN  text[Len(prefixes_to_remove)]

-----------------------------------------------------------------------------
(* Claims about normalize_column_names and validate_csv_structure, checked *)
(* under SpecColumns.                                                      *)

\* The canonical name a column resolves to by the tests of lines 298, 303
\* and 308 (date first, then description, then amount), <<>> if none.
ResolvesTo(col) ==
    LET col_lower == Strip(Lower(col))
    IN  IF IsDateColumn(col_lower) THEN S_date
        ELSE IF IsDescriptionColumn(col_lower) THEN S_description
        ELSE IF IsAmountColumn(col_lower) THEN S_amount
        ELSE <<>>

\* Column i is the leftmost column of the table that resolves to its name.
LeftmostResolving(columns, i) ==
    /\ ResolvesTo(columns[i]) # <<>>
    /\ \A j \in 1..(i - 1) : ResolvesTo(columns[j]) # ResolvesTo(columns[i])

\* C5: for each canonical name, normalize_column_names renames only the
\* leftmost column that resolves to it; every later column that resolves to
\* the same canonical name keeps its original name.
C5_OnlyLeftmostRenamed ==
    pc = "normalized" =>
        \A i \in 1..Len(df.columns) :
            df_normalized.columns[i] =
                IF LeftmostResolving(df.columns, i)
                THEN ResolvesTo(df.columns[i])
                ELSE df.columns[i]

\* Is text s the end of text t.
EndsWith(t, s) ==
    /\ Len(s) <= Len(t)
    /\ SubSeq(t, Len(t) - Len(s) + 1, Len(t)) = s

\* C10: validate_csv_structure fails with 'CSV file is empty' when the table
\* is absent or has no row or no column; otherwise it fails with a message
\* naming exactly the names of date, description, amount that are not among
\* the lower-cased trimmed column names, in that order; otherwise it succeeds
\* with no message. Only column names and the row count decide the result.
C10_ValidateNamesExactlyMissing ==
    pc = "validated" =>
        IF df = None THEN ~is_valid /\ error_msg = MSG_EMPTY
        ELSE IF Len(df.rows) = 0 \/ Len(df.columns) = 0
        THEN ~is_valid /\ error_msg = MSG_EMPTY
        ELSE LET present == {Strip(Lower(df.columns[i])) : i \in 1..Len(df.columns)}
                 absent == SelectSeq(required, LAMBDA c : c \notin present)
                 sep == <<",", " ">>
                 named == IF Len(absent) = 1 THEN absent[1]
                          ELSE IF Len(absent) = 2 THEN absent[1] \o sep \o absent[2]
                          ELSE absent[1] \o sep \o absent[2] \o sep \o absent[3]
             IN  IF absent = <<>> THEN is_valid /\ error_msg = NoneText
                 ELSE /\ ~is_valid
                      /\ StartsWith(error_msg, MSG_MISSING)
                      /\ EndsWith(error_msg, MSG_EXPECTED)
                      /\ SubSeq(error_msg, Len(MSG_MISSING) + 1,
                                Len(error_msg) - Len(MSG_EXPECTED)) = named

\* C10 witness: a table with a row and only a description column has been
\* rejected with 'Missing required columns: date, amount. ...'.
C10_Witness ==
    /\ pc = "validated"
    /\ df # None
    /\ Len(df.rows) = 1
    /\ ~is_valid
    /\ error_msg = MSG_MISSING \o S_date \o <<",", " ">> \o S_amount \o MSG_EXPECTED

-----------------------------------------------------------------------------
(* Claims about clean_csv_data, checked under SpecClean.                   *)

\* The labels (original row indices) of the removed-row records.
RemovedIndices == {removed_rows[k].index : k \in 1..Len(removed_rows)}

\* The labels of the input rows that have no removed-row record.
UnremovedIndices == {i \in 0..(Len(df.rows) - 1) : i \notin RemovedIndices}

\* The ways to name, for every row of the cleaned table, a different input
\* row without a removed-row record whose date and amount it carries.
Origins ==
    LET input == Reduce(df)
    IN  {p \in [1..Len(df_clean.rows) -> UnremovedIndices] :
            /\ \A k, l \in 1..Len(df_clean.rows) : k # l => p[k] # p[l]
            /\ \A k \in 1..Len(df_clean.rows) :
                   /\ df_clean.rows[k].date = ToDatetime(input[p[k] + 1].date)
                   /\ df_clean.rows[k].amount = CleanAmount(input[p[k] + 1].amount)}

ClaimedDescription(cell) ==
    LET text == Strip(IF cell = NaN THEN S_nan ELSE cell)
    IN  IF text = <<>> \/ text = S_nan \/ text = S_None THEN Unknown ELSE text

\* C2: every row of the table clean_csv_data returns has a parsed date, a
\* numeric amount and a non-empty description, and a description that was
\* empty, 'nan' or 'None' after stringify-and-trim is 'Unknown'.
C2_CleanRowsAreWellFormed ==
    pc = "cleaned" =>
        /\ \A k \in 1..Len(df_clean.rows) :
               /\ df_clean.rows[k].date # NaT
               /\ df_clean.rows[k].amount # NotANumber
               /\ df_clean.rows[k].description # <<>>
        /\ \E p \in Origins :
               \A k \in 1..Len(df_clean.rows) :
                   df_clean.rows[k].description =
                       ClaimedDescription(Reduce(df)[p[k] + 1].description)

\* C2 witness: a cleaned table of two rows, one of them with the description
\* 'Unknown' that replaced a missing description.
C2_Witness ==
    /\ pc = "cleaned"
    /\ Len(df_clean.rows) = 2
    /\ \E k \in 1..2 : df_clean.rows[k].description = Unknown
    /\ \E i \in 1..Len(df.rows) : Reduce(df)[i].description = NaN

-----------------------------------------------------------------------------
(* Claims about detect_header_row, checked under SpecHeader.               *)

\* Each of 'date', 'description', 'amount' is, ignoring case, a substring
\* of some cell of the row.
HasAllKeywords(row) ==
    \A keyword \in {S_date, S_description, S_amount} :
        \E i \in 1..Len(row) : Contains(keyword, Lower(row[i]))

\* The indices below 20 of the rows of the file that have all keywords.
HeaderCandidates ==
    {i \in 0..(Len(uploaded_file.lines) - 1) :
        i < 20 /\ HasAllKeywords(uploaded_file.lines[i + 1])}

\* C8: detect_header_row returns the smallest index i < 20 of a row in which
\* each of the three keywords is a case-insensitive substring of some cell;
\* it returns 0 when no row among the first 20 qualifies (a header at index
\* 20 or later is not detected) and 0 when the stream cannot be decoded.
C8_SmallestHeaderIndexBelow20 ==
    pc = "done" =>
        IF uploaded_file.decodes /\ HeaderCandidates # {}
        THEN /\ detected_skip \in HeaderCandidates
             /\ \A i \in HeaderCandidates : detected_skip <= i
        ELSE detected_skip = 0

\* C8 witness: a decodable file whose only header row has index 20 has been
\* scanned, and 0 was returned.
C8_Witness ==
    /\ pc = "done"
    /\ uploaded_file.decodes
    /\ Len(uploaded_file.lines) > 20
    /\ HasAllKeywords(uploaded_file.lines[21])
    /\ HeaderCandidates = {}
    /\ detected_skip = 0

-----------------------------------------------------------------------------
(* Claims about smart_read_csv, checked under SpecRead.                    *)

\* C9: smart_read_csv first attempts a strict parse from the start of the
\* stream; only if that attempt raises does it make exactly one more
\* attempt, lenient, again from the start. It returns the table of the
\* first attempt that succeeds and None when both fail, and no exception
\* reaches the caller.
C9_StrictThenOneLenientRetry ==
    pc = "done" =>
        LET strict == ReadCsv(uploaded_file, 0, skip_rows, FALSE)
            lenient == ReadCsv(uploaded_file, 0, skip_rows, TRUE)
        IN  /\ Len(reads) \in {1, 2}
            /\ reads[1] = [by |-> "strict", from |-> 0]
            /\ Len(reads) = 2 <=> strict.raised
            /\ Len(reads) = 2 => reads[2] = [by |-> "lenient", from |-> 0]
            /\ ~strict.raised => df = strict.table
            /\ strict.raised /\ ~lenient.raised => df = lenient.table
            /\ strict.raised /\ lenient.raised => df = None
            /\ error = NoneText

\* C9 witness: the strict parse raised on a line with too many fields and
\* the lenient parse returned a table with a row.
C9_Witness ==
    /\ pc = "done"
    /\ Len(reads) = 2
    /\ df # None
    /\ Len(df.rows) = 1
    /\ \E i \in 1..Len(uploaded_file.lines) : uploaded_file.lines[i] = R_LONG

-----------------------------------------------------------------------------
(* Claims about process_uploaded_file, checked under Spec.                 *)

\* The stages of a run that parsed and validated its file, without the
\* optional header detection and the read.
StagesAfterRead ==
    SelectSeq(stages, LAMBDA s : s \notin {"detect_header_row", "smart_read_csv"})

\* The columns of the table handed to the display layer.
CANONICAL_COLUMNS ==
    {S_date, S_description, S_amount, S_category, S_transaction_type, S_abs_amount,
     S_month, S_year, S_month_year}

\* C7: when a run of process_uploaded_file whose file parsed and passed
\* structure validation has ended, it has run normalize, validate, clean,
\* derive and classify in that order, has handed display_results a table
\* with the nine canonical columns and a category in every surviving row,
\* and has not ended in the error branch.
C7_ValidFileIsClassifiedAndDisplayed ==
    (pc = "ready" /\ df # None /\ is_valid) =>
        /\ outcome = "displayed"
        /\ error = NoneText
        /\ StagesAfterRead = <<"normalize_column_names", "validate_csv_structure",
                               "clean_csv_data", "add_derived_columns",
                               "get_classifier", "classify_batch", "display_results">>
        /\ displayed # None
        /\ {displayed.columns[i] : i \in 1..Len(displayed.columns)} = CANONICAL_COLUMNS
        /\ Len(displayed.rows) = Len(df_clean.rows)
        /\ \A k \in 1..Len(displayed.rows) :
            displayed.rows[k].category \in
                {CATEGORY_KEYWORDS[c].category : c \in 1..NumCategories} \cup {"Other"}

-----------------------------------------------------------------------------
(* Further claims about normalize_column_names, checked under SpecColumns. *)

\* The column names of a table, as a set.
ColumnSet(table) == {table.columns[i] : i \in 1..Len(table.columns)}

\* C11: normalize_column_names applied to its own output changes no column
\* name, and a table whose columns are all named date, description or
\* amount comes back with the names it had.
C11_NormalizeIsIdempotent ==
    (pc = "normalized" /\ df # None) =>
        /\ normalize_column_names(df_normalized).columns = df_normalized.columns
        /\ (ColumnSet(df) \subseteq {S_date, S_description, S_amount}
                => df_normalized.columns = df.columns)

\* A table whose first pass renamed a column and left a later date-like
\* column alone (a column literally named date came before it).
C11_Witness ==
    /\ pc = "normalized"
    /\ df # None
    /\ df.columns = <<<<"D","e","s","c","r","i","p","t","i","o","n">>, S_date, <<"P","o","s","t","e","d"," ","D","a","t","e">>>>
    /\ df_normalized.columns = <<S_description, S_date, <<"P","o","s","t","e","d"," ","D","a","t","e">>>>
    /\ normalize_column_names(df_normalized).columns = df_normalized.columns

-----------------------------------------------------------------------------
(* Further claims about clean_csv_data, checked under SpecClean.           *)

\* The removed-row records of the input row labelled i with the given reason.
RecordsOf(i, reason) ==
    {k \in 1..Len(removed_rows) :
        removed_rows[k].index = i /\ removed_rows[k].reason = reason}

\* The amount the claim as stated gives a cell: stringified, a '$' at the
\* very start removed, every ',' removed, trimmed, parsed.
ClaimedAmountLeadingDollar(cell) ==
    LET text == IF cell = NaN THEN S_nan ELSE cell
        undollared == IF text # <<>> /\ Head(text) = "$" THEN Tail(text) ELSE text
    IN  ToNumeric(Strip(SelectSeq(undollared, LAMBDA c : c # ",")))

\* The amount with every '$' and every ',' removed before the trim.
ClaimedAmountEveryDollar(cell) ==
    LET text == IF cell = NaN THEN S_nan ELSE cell
    IN  ToNumeric(Strip(SelectSeq(text, LAMBDA c : c \notin {"$", ","})))

\* The amount check treats every input row as Parsed says: a row whose
\* amount does not parse has exactly one invalid-amount record, with its
\* label, its date as read, its cleaned description and amount 'Invalid',
\* and no other record; a row whose amount parses has no invalid-amount
\* record and carries the parsed number into the cleaned table or into its
\* invalid-date record.
AmountCheckFollows(Parsed(_)) ==
    \A i \in 0..(Len(df.rows) - 1) :
        LET row == Reduce(df)[i + 1]
            number == Parsed(row.amount)
        IN  IF number = NotANumber
            THEN /\ Cardinality(RecordsOf(i, REASON_AMOUNT)) = 1
                 /\ RecordsOf(i, REASON_DATE) = {}
                 /\ \A k \in RecordsOf(i, REASON_AMOUNT) :
                        /\ removed_rows[k].date = row.date
                        /\ removed_rows[k].description = ClaimedDescription(row.description)
                        /\ removed_rows[k].amount = S_Invalid
            ELSE /\ RecordsOf(i, REASON_AMOUNT) = {}
                 /\ \A k \in RecordsOf(i, REASON_DATE) : removed_rows[k].amount = number
                 /\ RecordsOf(i, REASON_DATE) = {} =>
                        \E k \in 1..Len(df_clean.rows) :
                            /\ df_clean.rows[k].amount = number
                            /\ df_clean.rows[k].date = ToDatetime(row.date)

-----------------------------------------------------------------------------
(* Claims about add_derived_columns, checked under SpecDerive.             *)

\* C14: add_derived_columns returns as many rows as it was given, with the
\* date, description and amount of every row unchanged and in place,
\* transaction_type 'Income' exactly when the amount is above zero and
\* 'Expense' otherwise, and abs_amount the magnitude of the amount.
C14_DerivedColumnsKeepRows ==
    pc = "derived" =>
        /\ Len(df_enhanced.rows) = Len(df_clean.rows)
        /\ \A k \in 1..Len(df_clean.rows) :
            LET in == df_clean.rows[k]
                out == df_enhanced.rows[k]
            IN  /\ out.date = in.date
                /\ out.description = in.description
                /\ out.amount = in.amount
                /\ (out.transaction_type = "Income") <=> (in.amount.m > 0)
                /\ (out.transaction_type = "Expense") <=> (in.amount.m <= 0)
                /\ out.abs_amount.e = in.amount.e
                /\ out.abs_amount.m >= 0
                /\ out.abs_amount.m \in {in.amount.m, 0 - in.amount.m}

\* C14 witness: a row of amount 0 became an 'Expense' of abs_amount 0, next
\* to a row of negative amount.
C14_Witness ==
    /\ pc = "derived"
    /\ Len(df_enhanced.rows) = 2
    /\ df_clean.rows[1].amount = Num(0, 0)
    /\ df_enhanced.rows[1].transaction_type = "Expense"
    /\ df_enhanced.rows[1].abs_amount = Num(0, 0)
    /\ df_clean.rows[2].amount = Num(-575, 2)
    /\ df_enhanced.rows[2].abs_amount = Num(575, 2)

\* The empty table stays empty.
C14_WitnessEmpty ==
    /\ pc = "derived"
    /\ Len(df_clean.rows) = 0
    /\ Len(df_enhanced.rows) = 0

\* C15: the table clean_csv_data returns is in non-decreasing date order
\* and its rows are labelled 0..n-1 by position, whatever labels the rows
\* had in the input.
C15_SortedWithFreshIndex ==
    pc = "cleaned" =>
        /\ \A k, l \in 1..Len(df_clean.rows) :
               k < l => df_clean.rows[k].date <= df_clean.rows[l].date
        /\ Len(df_clean.index) = Len(df_clean.rows)
        /\ \A k \in 1..Len(df_clean.rows) : df_clean.index[k] = k - 1

\* C15 witness: the two input rows changed places; the input row labelled
\* 1 is now row 0 and the one labelled 0 is row 1.
C15_Witness ==
    /\ pc = "cleaned"
    /\ Len(df.rows) = 2
    /\ Reduce(df)[1].date = D_JAN15
    /\ Reduce(df)[2].date = D_JAN02
    /\ Reduce(df)[1].amount = A_1234_56
    /\ Reduce(df)[2].amount = A_MINUS_5_75
    /\ Len(df_clean.rows) = 2
    /\ df_clean.rows[1].date = 20240102
    /\ df_clean.rows[1].amount = Num(-575, 2)
    /\ df_clean.rows[2].date = 20240115
    /\ df_clean.index = <<0, 1>>

\* The cell input row i (from 1) has in the leftmost column whose
\* lower-cased trimmed name is the given one.
LeftmostCell(i, name) ==
    LET named == {j \in 1..Len(df.columns) : Strip(Lower(df.columns[j])) = name}
        leftmost == CHOOSE j \in named : \A l \in named : j <= l
    IN  df.rows[i][leftmost]

\* Some column name of the input occurs twice after lower-casing and
\* trimming.
HasDuplicateColumns ==
    \E j, l \in 1..Len(df.columns) :
        j # l /\ Strip(Lower(df.columns[j])) = Strip(Lower(df.columns[l]))

-----------------------------------------------------------------------------
(* Further claims about process_uploaded_file, checked under Spec.         *)

\* The reads of the stream the current run has made under the given name.
ReadsBy(by) == {k \in 1..Len(reads) : reads[k].by = by}

\* C17 as stated: in one run the stream is read from its start at most
\* twice, at most once by detect_header_row and once by smart_read_csv.
C17_AtMostTwoReads ==
    /\ Len(reads) <= 2
    /\ \A k \in 1..Len(reads) : reads[k].from = 0
    /\ Cardinality(ReadsBy("detect_header_row")) <= 1
    /\ Cardinality(ReadsBy("strict") \cup ReadsBy("lenient")) <= 1

\* C17 amended: in one run the stream is read from its start at most three
\* times: at most once by detect_header_row, and only when auto_detect is
\* set; once by the strict parse of smart_read_csv; and once more by its
\* lenient parse, only after the strict parse.
C17_AtMostThreeReads ==
    /\ Len(reads) <= 3
    /\ \A k \in 1..Len(reads) : reads[k].from = 0
    /\ Cardinality(ReadsBy("detect_header_row")) <= 1
    /\ ReadsBy("detect_header_row") # {} => auto_detect
    /\ Cardinality(ReadsBy("strict")) <= 1
    /\ Cardinality(ReadsBy("lenient")) <= 1
    /\ \A k \in ReadsBy("lenient") : k > 1 /\ reads[k - 1].by = "strict"
    /\ \A k \in ReadsBy("detect_header_row") : k = 1

\* C17 witness: a run that detected the header, failed the strict parse on
\* a line with too many fields and got its table from the lenient parse.
C17_Witness ==
    /\ pc = "ready"
    /\ outcome = "error"
    /\ df # None
    /\ reads = <<Read("detect_header_row", 0), Read("strict", 0), Read("lenient", 0)>>

\* The stage functions that work on a validated table.
LATER_STAGES ==
    {"clean_csv_data", "add_derived_columns", "get_classifier", "classify_batch",
     "display_results"}

\* The stage functions the current run has called.
StagesCalled == {stages[k] : k \in 1..Len(stages)}

C18_WitnessUnparseable ==
    /\ pc = "ready"
    /\ outcome = "unparseable"
    /\ df = None
    /\ stages[Len(stages)] = "smart_read_csv"

\* A run that removed a row and went on to the classify stage.
C18_WitnessRemovedRows ==
    /\ pc = "classify"
    /\ Len(removed_rows) = 1
    /\ df_enhanced # None

\* process_uploaded_file has been called in the current run of main.
SettingsTaken ==
    \/ pc \in {"process", "read", "normalize", "validate", "clean", "classify"}
    \/ pc = "ready" /\ outcome \notin {"none", "landing"}

\* C19: every run started from main works with the values the two controls
\* show: process_uploaded_file gets the checkbox's auto_detect and the
\* input's skip_rows, and with auto_detect off the header detection is not
\* run and the file is parsed skipping exactly the selected rows.
C19_SelectedSettingsAreUsed ==
    SettingsTaken =>
        /\ auto_detect = main_auto_detect
        /\ ~main_auto_detect =>
               /\ ReadsBy("detect_header_row") = {}
               /\ skip_rows = main_skip_rows

-----------------------------------------------------------------------------
(* Further claims about classify, checked under SpecClassify.              *)

\* The place of Income in the keyword table.
INCOME == CHOOSE c \in 1..NumCategories : CATEGORY_KEYWORDS[c].category = "Income"

\* C20: for an amount that is not above zero, classify returns 'Income'
\* exactly when the Income score is above zero and above the score of
\* every other category (Income is the last category of the table, so a
\* tie goes to the other category); such a row is an 'Expense' for
\* categorize_transaction_type.
C20_IncomeKeywordsOnNonPositiveAmount ==
    (pc = "done" /\ ~(amount.m > 0)) =>
        /\ INCOME = NumCategories
        /\ (category = "Income") <=>
               /\ ClaimedScore(INCOME, description) > 0
               /\ \A c \in 1..NumCategories :
                      c # INCOME =>
                          ClaimedScore(c, description) < ClaimedScore(INCOME, description)
        /\ category = "Income" => categorize_transaction_type(amount) = "Expense"

\* 'Refund subway ': refund scores 6 for Income, subway scores 6 for two
\* earlier categories.
REFUND_SUBWAY == <<"R","e","f","u","n","d"," ","s","u","b","w","a","y"," ">>

\* C20 witness: 'Refund ' with a negative amount was classified 'Income'.
C20_Witness ==
    /\ pc = "done"
    /\ description = <<"R","e","f","u","n","d"," ">>
    /\ amount = Num(-575, 2)
    /\ category = "Income"
    /\ categorize_transaction_type(amount) = "Expense"

\* The tie: 'Refund subway ' with amount 0 was not classified 'Income'.
C20_WitnessTie ==
    /\ pc = "done"
    /\ description = REFUND_SUBWAY
    /\ amount = Num(0, 0)
    /\ ClaimedScore(INCOME, description) = 6
    /\ category # "Income"

====
